---- MODULE Spec2Model ----
(***************************************************************************)
(* AlarmScheduler (libraries/AlarmScheduler/src/AlarmScheduler.{h,cpp}):    *)
(* the fixed-capacity alarm store, the matching engine check(), the        *)
(* customizable-alarm registry and its JSON persistence.                   *)
(*                                                                         *)
(* The time source (getLocalTime / time) and the SPIFFS file are external: *)
(* a reading and the outcome of a file write are inputs of the actions.    *)
(* Strings are sequences of characters, a null pointer is NULL, a callback *)
(* is identified by its name.                                              *)
(***************************************************************************)
EXTENDS Integers, Sequences, FiniteSets, TLC

\* ------------------------------------------------------------------------
\* Program constants
\* ------------------------------------------------------------------------
MAX_ALARMS == 16
ALARM_WILDCARD == 255
DOW_ALL == 127
DOW_MONDAY == 2
DOW_FRIDAY == 32
NAME_SIZE == 50
DESCRIPTION_SIZE == 100
TYPESTRING_SIZE == 20
\* the largest int (webId and _nextWebId are int, 32 bits on the ESP32)
INT_MAX == 2147483647
NULL == "nullptr"
SYSTEM == <<"S", "Y", "S", "T", "E", "M">>

\* ------------------------------------------------------------------------
\* Bounds of the model (not program constants)
\* ------------------------------------------------------------------------
\* alarms the environment places in the store under Spec
MaxStore == 2
\* alarms the environment places in the store under SpecEngine
MaxEngine == 1
\* entries of a document written by something else than the scheduler
MaxDoc == 3

\* ------------------------------------------------------------------------
\* Integer helpers
\* ------------------------------------------------------------------------
RECURSIVE BitAnd(_, _)
\* a & b on non-negative integers
BitAnd(a, b) ==
    IF a = 0 \/ b = 0 THEN 0
    ELSE (IF a % 2 = 1 /\ b % 2 = 1 THEN 1 ELSE 0) + 2 * BitAnd(a \div 2, b \div 2)

\* 1 << n stored in a uint8_t
Shl8(n) == (2 ^ n) % 256

Min(a, b) == IF a <= b THEN a ELSE b

\* strncpy(dst, src, size - 1); dst[size - 1] = '\0'
strncpy(src, size) == SubSeq(src, 1, Min(Len(src), size - 1))

\* ------------------------------------------------------------------------
\* struct Alarm: the value a default-constructed Alarm holds
\* ------------------------------------------------------------------------
Alarm ==
    [ enabled         |-> FALSE,
      dayMask         |-> DOW_ALL,
      hour            |-> 0,
      minute          |-> 0,
      intervalMin     |-> 0,
      lastYearDay     |-> -1,
      lastMinute      |-> 255,
      lastHour        |-> 255,
      lastExecution   |-> 0,
      action          |-> NULL,
      externalAction  |-> NULL,
      externalAction0 |-> NULL,
      parameter       |-> 0,
      name            |-> <<>>,
      description     |-> <<>>,
      typeString      |-> SYSTEM,
      isCustomizable  |-> FALSE,
      webId           |-> -1 ]

Slots == 0 .. (MAX_ALARMS - 1)

\* ------------------------------------------------------------------------
\* State
\* ------------------------------------------------------------------------
VARIABLES
    _alarms,     \* Alarm _alarms[MAX_ALARMS]: every slot, live or not
    _num,        \* number of live alarms: slots 0 .. _num-1
    _nextWebId,  \* the in-memory next-id counter
    file,        \* /customizable_alarms.json: missing, corrupt or a document
    op,          \* the public operation that ran last
    ret,         \* what it returned
    fired,       \* the callbacks the last check() invoked, in order
    t,           \* struct tm t: the reading of the last check(), with now = time(nullptr)
    log          \* history (kept by SpecDay and SpecJump): every dispatch so far with
                 \* its reading, and every set-back of the clock

vars == <<_alarms, _num, _nextWebId, file, op, ret, fired, t, log>>

\* t before the first reading; no alarm field ever equals its values
NoReading ==
    [tm_sec |-> -2, tm_min |-> -2, tm_hour |-> -2, tm_wday |-> -2, tm_yday |-> -2, now |-> -2]

\* the scheduler object after construction
Constructed ==
    /\ _alarms = [i \in Slots |-> Alarm]
    /\ _num = 0
    /\ _nextWebId = 1
    /\ op = "construct"
    /\ ret = 0
    /\ fired = <<>>
    /\ t = NoReading
    /\ log = <<>>

\* ------------------------------------------------------------------------
\* System alarms: add, addExternal, addExternal0
\* ------------------------------------------------------------------------
\* the slot as add() leaves it (name and description are not written)
addSlot(old, dayMask, hour, minute, intervalMin, action, parameter, enabled) ==
    [ old EXCEPT
        !.enabled         = enabled,
        !.dayMask         = IF dayMask # 0 THEN dayMask ELSE DOW_ALL,
        !.hour            = hour,
        !.minute          = minute,
        !.intervalMin     = intervalMin,
        !.lastYearDay     = -1,
        !.lastMinute      = 255,
        !.lastHour        = 255,
        !.lastExecution   = 0,
        !.action          = action,
        !.externalAction  = NULL,
        !.externalAction0 = NULL,
        !.parameter       = parameter,
        !.isCustomizable  = FALSE,
        !.webId           = -1,
        !.typeString      = SYSTEM ]

addExternalSlot(old, dayMask, hour, minute, intervalMin, ext, parameter, enabled) ==
    [ addSlot(old, dayMask, hour, minute, intervalMin, NULL, parameter, enabled)
        EXCEPT !.externalAction = ext ]

addExternal0Slot(old, dayMask, hour, minute, intervalMin, ext0, enabled) ==
    [ addSlot(old, dayMask, hour, minute, intervalMin, NULL, 0, enabled)
        EXCEPT !.externalAction0 = ext0 ]

\* addSystem that stores the alarm in the last slot when the store is full
addSystem_overwrite(name, slot) ==
    /\ op' = name
    /\ fired' = <<>>
    /\ UNCHANGED <<_nextWebId, file, t>>
    /\ IF _num >= MAX_ALARMS
       THEN /\ ret' = 255
            /\ _alarms' = [_alarms EXCEPT ![MAX_ALARMS - 1] = slot]
            /\ UNCHANGED _num
       ELSE /\ _alarms' = [_alarms EXCEPT ![_num] = slot]
            /\ ret' = _num
            /\ _num' = _num + 1

\* what the three add operations do once the slot value is known
addSystem(name, slot) ==
    /\ op' = name
    /\ fired' = <<>>
    /\ UNCHANGED <<_nextWebId, file, t>>
    /\ IF _num >= MAX_ALARMS
       THEN /\ ret' = 255
            /\ UNCHANGED <<_alarms, _num>>
       ELSE /\ _alarms' = [_alarms EXCEPT ![_num] = slot]
            /\ ret' = _num
            /\ _num' = _num + 1

add(dayMask, hour, minute, intervalMin, action, parameter, enabled) ==
    addSystem("add",
              addSlot(_alarms[Min(_num, MAX_ALARMS - 1)], dayMask, hour, minute,
                      intervalMin, action, parameter, enabled))

addExternal(dayMask, hour, minute, intervalMin, ext, parameter, enabled) ==
    addSystem("addExternal",
              addExternalSlot(_alarms[Min(_num, MAX_ALARMS - 1)], dayMask, hour, minute,
                              intervalMin, ext, parameter, enabled))

addExternal0(dayMask, hour, minute, intervalMin, ext0, enabled) ==
    addSystem("addExternal0",
              addExternal0Slot(_alarms[Min(_num, MAX_ALARMS - 1)], dayMask, hour, minute,
                               intervalMin, ext0, enabled))

\* ------------------------------------------------------------------------
\* The matching engine: check()
\* A reading is [tm_hour, tm_min, tm_wday, tm_yday] of getLocalTime and
\* now = time(nullptr).
\* ------------------------------------------------------------------------
_dayMaskFromWeekday(weekday) ==
    IF weekday >= 0 /\ weekday <= 6 THEN Shl8(weekday) ELSE 0

\* skipped without the test of the day mask
skipped_enabledOnly(alarm, r) == ~alarm.enabled

\* the two "continue" tests at the head of the loop body
skipped(alarm, r) ==
    \/ ~alarm.enabled
    \/ BitAnd(alarm.dayMask, _dayMaskFromWeekday(r.tm_wday)) = 0

\* anchorOk without the test of the minute
anchorOk_hourOnly(alarm, r) ==
    ~(alarm.hour # ALARM_WILDCARD /\ alarm.hour # r.tm_hour)

\* first execution of an interval alarm: the anchor
anchorOk(alarm, r) ==
    /\ ~(alarm.hour # ALARM_WILDCARD /\ alarm.hour # r.tm_hour)
    /\ ~(alarm.minute # ALARM_WILDCARD /\ alarm.minute # r.tm_min)

\* intervalTrigger with > for >=
intervalTrigger_strict(alarm, r) ==
    IF alarm.lastExecution = 0
    THEN anchorOk(alarm, r)
    ELSE (r.now - alarm.lastExecution) > alarm.intervalMin * 60

\* intervalTrigger with the interval taken as seconds
intervalTrigger_seconds(alarm, r) ==
    IF alarm.lastExecution = 0
    THEN anchorOk(alarm, r)
    ELSE (r.now - alarm.lastExecution) >= alarm.intervalMin

intervalTrigger(alarm, r) ==
    IF alarm.lastExecution = 0
    THEN anchorOk(alarm, r)
    ELSE (r.now - alarm.lastExecution) >= alarm.intervalMin * 60

\* alreadyExecuted with no dedup at all
alreadyExecuted_never(alarm, r) == FALSE

\* alreadyExecuted with the fixed-hour key (day, minute) in both branches
alreadyExecuted_noHour(alarm, r) ==
    /\ alarm.lastYearDay = r.tm_yday
    /\ alarm.lastMinute = r.tm_min

\* alreadyExecuted with the day left out of the fixed-hour key
alreadyExecuted_noDay(alarm, r) ==
    IF alarm.hour = ALARM_WILDCARD
    THEN /\ alarm.lastYearDay = r.tm_yday
         /\ alarm.lastMinute = r.tm_min
         /\ alarm.lastHour = r.tm_hour
    ELSE alarm.lastMinute = r.tm_min

\* alreadyExecuted that knows a firing by its epoch second only
alreadyExecuted_byEpoch(alarm, r) == alarm.lastExecution = r.now

alreadyExecuted(alarm, r) ==
    IF alarm.hour = ALARM_WILDCARD
    THEN /\ alarm.lastYearDay = r.tm_yday
         /\ alarm.lastMinute = r.tm_min
         /\ alarm.lastHour = r.tm_hour
    ELSE /\ alarm.lastYearDay = r.tm_yday
         /\ alarm.lastMinute = r.tm_min

\* fixedTrigger without the test of the minute
fixedTrigger_hourOnly(alarm, r) ==
    LET matchHour == alarm.hour = ALARM_WILDCARD \/ alarm.hour = r.tm_hour
    IN  matchHour /\ ~alreadyExecuted(alarm, r)

fixedTrigger(alarm, r) ==
    LET matchHour   == alarm.hour = ALARM_WILDCARD \/ alarm.hour = r.tm_hour
        matchMinute == alarm.minute = ALARM_WILDCARD \/ alarm.minute = r.tm_min
    IN  matchHour /\ matchMinute /\ ~alreadyExecuted(alarm, r)

\* the value of "trigger" when the loop body reaches "if (!trigger) continue"
trigger(alarm, r) ==
    IF alarm.intervalMin > 0 THEN intervalTrigger(alarm, r) ELSE fixedTrigger(alarm, r)

\* the callback the if / else-if chain invokes
invoked(i, alarm) ==
    IF alarm.action # NULL
    THEN [idx |-> i, kind |-> "action", fn |-> alarm.action, parameter |-> alarm.parameter]
    ELSE IF alarm.externalAction # NULL
    THEN [idx |-> i, kind |-> "externalAction", fn |-> alarm.externalAction,
          parameter |-> alarm.parameter]
    ELSE IF alarm.externalAction0 # NULL
    THEN [idx |-> i, kind |-> "externalAction0", fn |-> alarm.externalAction0,
          parameter |-> 0]
    ELSE [idx |-> i, kind |-> "none", fn |-> NULL, parameter |-> 0]

\* "Update cache" without the hour
updateCache_noHour(alarm, r) ==
    [ alarm EXCEPT
        !.lastYearDay   = r.tm_yday,
        !.lastMinute    = r.tm_min,
        !.lastExecution = r.now ]

\* "Update cache"
updateCache(alarm, r) ==
    [ alarm EXCEPT
        !.lastYearDay   = r.tm_yday,
        !.lastMinute    = r.tm_min,
        !.lastHour      = r.tm_hour,
        !.lastExecution = r.now ]

\* a loop that returns after the first alarm it dispatched
checkLoop_first(i, alarms, calls, r) ==
    LET due == {k \in i .. (_num - 1) : ~skipped(alarms[k], r) /\ trigger(alarms[k], r)}
    IN  IF due = {} THEN [alarms |-> alarms, calls |-> calls]
        ELSE LET k == CHOOSE k \in due : \A j \in due : k <= j
             IN  [alarms |-> [alarms EXCEPT ![k] = updateCache(alarms[k], r)],
                  calls  |-> Append(calls, invoked(k, alarms[k]))]

RECURSIVE checkLoop(_, _, _, _)
\* for (i = 0; i < _num; ++i) { ... } from index i on
checkLoop(i, alarms, calls, r) ==
    IF i >= _num THEN [alarms |-> alarms, calls |-> calls]
    ELSE IF skipped(alarms[i], r) \/ ~trigger(alarms[i], r)
    THEN checkLoop(i + 1, alarms, calls, r)
    ELSE checkLoop(i + 1,
                   [alarms EXCEPT ![i] = updateCache(alarms[i], r)],
                   Append(calls, invoked(i, alarms[i])),
                   r)

\* check() with getLocalTime succeeding
check(r) ==
    LET res == checkLoop(0, _alarms, <<>>, r)
    IN  /\ _alarms' = res.alarms
        /\ fired' = res.calls
        /\ t' = r
        /\ op' = "check"
        /\ ret' = 0
        /\ UNCHANGED <<_num, _nextWebId, file>>

\* check() that goes on with the reading of the call before when
\* getLocalTime fails
checkNoTime_stale ==
    LET res == checkLoop(0, _alarms, <<>>, t)
    IN  /\ _alarms' = res.alarms
        /\ fired' = res.calls
        /\ op' = "checkNoTime"
        /\ ret' = 0
        /\ UNCHANGED <<_num, _nextWebId, file, t>>

\* check() with getLocalTime failing: return
checkNoTime ==
    /\ op' = "checkNoTime"
    /\ ret' = 0
    /\ fired' = <<>>
    /\ t' = NoReading
    /\ UNCHANGED <<_alarms, _num, _nextWebId, file>>

\* ------------------------------------------------------------------------
\* disable, enable, clear, resetCache
\* ------------------------------------------------------------------------
\* enable(idx) that resets the dedup fields as enableCustomizable does
setEnabled_reset(name, idx, value) ==
    /\ _alarms' = IF idx < _num
                  THEN [_alarms EXCEPT ![idx] =
                          IF value
                          THEN [@ EXCEPT !.enabled = TRUE, !.lastYearDay = -1,
                                         !.lastMinute = 255, !.lastHour = 255,
                                         !.lastExecution = 0]
                          ELSE [@ EXCEPT !.enabled = FALSE]]
                  ELSE _alarms
    /\ op' = name
    /\ ret' = 0
    /\ fired' = <<>>
    /\ UNCHANGED <<_num, _nextWebId, file, t>>

\* get(idx): the alarm at idx, or nullptr
get(idx) == IF idx < _num THEN _alarms[idx] ELSE NULL

setEnabled(name, idx, value) ==
    /\ _alarms' = IF idx < _num THEN [_alarms EXCEPT ![idx].enabled = value] ELSE _alarms
    /\ op' = name
    /\ ret' = 0
    /\ fired' = <<>>
    /\ UNCHANGED <<_num, _nextWebId, file, t>>

disable(idx) == setEnabled("disable", idx, FALSE)

enable(idx) == setEnabled("enable", idx, TRUE)

clear ==
    /\ _num' = 0
    /\ _nextWebId' = 1
    /\ op' = "clear"
    /\ ret' = 0
    /\ fired' = <<>>
    /\ UNCHANGED <<_alarms, file, t>>

\* the dedup state of an alarm that has not fired
resetDedup(alarm) ==
    [ alarm EXCEPT
        !.lastYearDay   = -1,
        !.lastMinute    = 255,
        !.lastHour      = 255,
        !.lastExecution = 0 ]

resetCache ==
    /\ _alarms' = [i \in Slots |-> IF i < _num THEN resetDedup(_alarms[i]) ELSE _alarms[i]]
    /\ op' = "resetCache"
    /\ ret' = 0
    /\ fired' = <<>>
    /\ UNCHANGED <<_num, _nextWebId, file, t>>

\* ------------------------------------------------------------------------
\* Private helpers
\* ------------------------------------------------------------------------
RECURSIVE findFrom(_, _, _, _)
findFrom(i, alarms, num, webId) ==
    IF i >= num THEN MAX_ALARMS
    ELSE IF alarms[i].isCustomizable /\ alarms[i].webId = webId THEN i
    ELSE findFrom(i + 1, alarms, num, webId)

_findIndexByWebId(webId) == findFrom(0, _alarms, _num, webId)

RECURSIVE maxIdFrom(_, _, _, _)
maxIdFrom(i, alarms, num, maxId) ==
    IF i >= num THEN maxId
    ELSE maxIdFrom(i + 1, alarms, num,
                   IF alarms[i].isCustomizable /\ alarms[i].webId > maxId
                   THEN alarms[i].webId ELSE maxId)

\* _generateNewWebId reading the next-id counter
_generateNewWebId_counter == _nextWebId

_generateNewWebId == maxIdFrom(0, _alarms, _num, 0) + 1

\* ------------------------------------------------------------------------
\* guardarPersonalizablesEnJSON (saveCustomizablesToJSON)
\* The file is [kind, total, alarms]: kind "document" with the document's
\* total and alarms, or "missing", or "corrupt" (content deserializeJson
\* rejects, an empty file included).
\* ------------------------------------------------------------------------
RECURSIVE firstBit(_, _)
\* for (d = 0; d < 7; d++) if (dayMask & (1 << d)) { day = d + 1; break; }
firstBit(dayMask, d) ==
    IF d >= 7 THEN 0
    ELSE IF BitAnd(dayMask, Shl8(d)) # 0 THEN d + 1
    ELSE firstBit(dayMask, d + 1)

dayOfMask(dayMask) == IF dayMask = DOW_ALL THEN 0 ELSE firstBit(dayMask, 0)

entryOf(alarm) ==
    [ id          |-> alarm.webId,
      name        |-> alarm.name,
      description |-> alarm.description,
      day         |-> dayOfMask(alarm.dayMask),
      hour        |-> alarm.hour,
      minute      |-> alarm.minute,
      action      |-> alarm.typeString,
      enabled     |-> alarm.enabled,
      parameter   |-> alarm.parameter ]

RECURSIVE entriesFrom(_, _, _)
entriesFrom(i, alarms, num) ==
    IF i >= num THEN <<>>
    ELSE IF alarms[i].isCustomizable
    THEN <<entryOf(alarms[i])>> \o entriesFrom(i + 1, alarms, num)
    ELSE entriesFrom(i + 1, alarms, num)

documentOf(alarms, num) ==
    LET es == entriesFrom(0, alarms, num)
    IN  [kind |-> "document", total |-> Len(es), alarms |-> es]

MissingFile == [kind |-> "missing", total |-> 0, alarms |-> <<>>]

CorruptFile == [kind |-> "corrupt", total |-> 0, alarms |-> <<>>]

\* the outcomes of SPIFFS.open(file, "w") and serializeJson(doc, f)
WriteOutcomes == {"ok", "openFailed", "zeroBytes"}

\* the file after the write: open "w" truncates it
written(old, doc, w) ==
    CASE w = "ok" -> doc
      [] w = "openFailed" -> old
      [] OTHER -> CorruptFile

guardarPersonalizablesEnJSON(alarms, num, old, w) ==
    [file |-> written(old, documentOf(alarms, num), w), ret |-> (w = "ok")]

\* ------------------------------------------------------------------------
\* The customizable registry
\* ------------------------------------------------------------------------
\* the slot as addPersonalizable leaves it: the dedup fields are not written
addPersonalizableSlot(old, nombre, descripcion, mascaraDias, hora, minuto, tipoString, parametro, callback, habilitada, webId) ==
    [ old EXCEPT
        !.enabled         = habilitada,
        !.dayMask         = mascaraDias,
        !.hour            = hora,
        !.minute          = minuto,
        !.intervalMin     = 0,
        !.parameter       = parametro,
        !.externalAction  = callback,
        !.action          = NULL,
        !.externalAction0 = NULL,
        !.name            = strncpy(nombre, NAME_SIZE),
        !.description     = strncpy(descripcion, DESCRIPTION_SIZE),
        !.typeString      = strncpy(tipoString, TYPESTRING_SIZE),
        !.isCustomizable  = TRUE,
        !.webId           = webId ]

\* addPersonalizableReturn returning the web id
addPersonalizableReturn_webId(idx, webId) == webId

\* the value addPersonalizable returns for the alarm it stored at index idx
\* with web id webId
addPersonalizableReturn(idx, webId) == idx

addPersonalizable(nombre, descripcion, mascaraDias, hora, minuto, tipoString, parametro, callback, habilitada, w) ==
    /\ op' = "addCustomizable"
    /\ fired' = <<>>
    /\ UNCHANGED <<_nextWebId, t>>
    /\ IF _num >= MAX_ALARMS
       THEN /\ ret' = MAX_ALARMS
            /\ UNCHANGED <<_alarms, _num, file>>
       ELSE LET webId  == _generateNewWebId
                alarms == [_alarms EXCEPT ![_num] =
                             addPersonalizableSlot(_alarms[_num], nombre, descripcion,
                                                   mascaraDias, hora, minuto, tipoString,
                                                   parametro, callback, habilitada, webId)]
            IN  /\ _alarms' = alarms
                /\ _num' = _num + 1
                /\ file' = guardarPersonalizablesEnJSON(alarms, _num + 1, file, w).file
                /\ ret' = addPersonalizableReturn(_num, webId)

\* modificarPersonalizableSlot without the reset of the dedup fields
modificarPersonalizableSlot_keepDedup(old, nombre, descripcion, mascaraDias, hora, minuto, tipoString, habilitada, callback, parametro) ==
    [ old EXCEPT
        !.enabled         = habilitada,
        !.dayMask         = mascaraDias,
        !.hour            = hora,
        !.minute          = minuto,
        !.externalAction  = callback,
        !.parameter       = parametro,
        !.action          = NULL,
        !.externalAction0 = NULL,
        !.name            = strncpy(nombre, NAME_SIZE),
        !.description     = strncpy(descripcion, DESCRIPTION_SIZE),
        !.typeString      = strncpy(tipoString, TYPESTRING_SIZE) ]

modificarPersonalizableSlot(old, nombre, descripcion, mascaraDias, hora, minuto, tipoString, habilitada, callback, parametro) ==
    resetDedup(
      [ old EXCEPT
          !.enabled         = habilitada,
          !.dayMask         = mascaraDias,
          !.hour            = hora,
          !.minute          = minuto,
          !.externalAction  = callback,
          !.parameter       = parametro,
          !.action          = NULL,
          !.externalAction0 = NULL,
          !.name            = strncpy(nombre, NAME_SIZE),
          !.description     = strncpy(descripcion, DESCRIPTION_SIZE),
          !.typeString      = strncpy(tipoString, TYPESTRING_SIZE) ])

\* modificarPersonalizable without the test of the callback
modificarPersonalizable_noCallbackTest(idWeb, nombre, descripcion, mascaraDias, hora, minuto, tipoString, habilitada, callback, parametro, w) ==
    LET idx == _findIndexByWebId(idWeb)
    IN  /\ op' = "modifyCustomizable"
        /\ fired' = <<>>
        /\ UNCHANGED <<_num, _nextWebId, t>>
        /\ IF idx >= MAX_ALARMS \/ ~_alarms[idx].isCustomizable
           THEN /\ ret' = FALSE
                /\ UNCHANGED <<_alarms, file>>
           ELSE LET alarms == [_alarms EXCEPT ![idx] =
                                 modificarPersonalizableSlot(_alarms[idx], nombre,
                                     descripcion, mascaraDias, hora, minuto, tipoString,
                                     habilitada, callback, parametro)]
                IN  /\ _alarms' = alarms
                    /\ file' = guardarPersonalizablesEnJSON(alarms, _num, file, w).file
                    /\ ret' = TRUE

modificarPersonalizable(idWeb, nombre, descripcion, mascaraDias, hora, minuto, tipoString, habilitada, callback, parametro, w) ==
    LET idx == _findIndexByWebId(idWeb)
    IN  /\ op' = "modifyCustomizable"
        /\ fired' = <<>>
        /\ UNCHANGED <<_num, _nextWebId, t>>
        /\ IF idx >= MAX_ALARMS \/ ~_alarms[idx].isCustomizable \/ callback = NULL
           THEN /\ ret' = FALSE
                /\ UNCHANGED <<_alarms, file>>
           ELSE LET alarms == [_alarms EXCEPT ![idx] =
                                 modificarPersonalizableSlot(_alarms[idx], nombre,
                                     descripcion, mascaraDias, hora, minuto, tipoString,
                                     habilitada, callback, parametro)]
                IN  /\ _alarms' = alarms
                    /\ file' = guardarPersonalizablesEnJSON(alarms, _num, file, w).file
                    /\ ret' = TRUE

\* shiftDown without the shift
shiftDown_none(alarms, idx, num) == alarms

\* for (i = idx; i < num - 1; i++) alarms[i] = alarms[i + 1];
shiftDown(alarms, idx, num) ==
    [i \in Slots |-> IF i >= idx /\ i < num - 1 THEN alarms[i + 1] ELSE alarms[i]]

\* eliminarPersonalizable that removes the first live alarm with the web
\* id, customizable or not
eliminarPersonalizable_anyAlarm(idWeb, w) ==
    LET hits == {i \in 0 .. (_num - 1) : _alarms[i].webId = idWeb}
    IN  /\ op' = "deleteCustomizable"
        /\ fired' = <<>>
        /\ UNCHANGED <<_nextWebId, t>>
        /\ IF hits = {}
           THEN /\ ret' = FALSE
                /\ UNCHANGED <<_alarms, _num, file>>
           ELSE LET idx    == CHOOSE i \in hits : \A j \in hits : i <= j
                    alarms == [shiftDown(_alarms, idx, _num) EXCEPT ![_num - 1] = Alarm]
                IN  /\ _alarms' = alarms
                    /\ _num' = _num - 1
                    /\ file' = guardarPersonalizablesEnJSON(alarms, _num - 1, file, w).file
                    /\ ret' = TRUE

eliminarPersonalizable(idWeb, w) ==
    LET idx == _findIndexByWebId(idWeb)
    IN  /\ op' = "deleteCustomizable"
        /\ fired' = <<>>
        /\ UNCHANGED <<_nextWebId, t>>
        /\ IF idx >= MAX_ALARMS \/ ~_alarms[idx].isCustomizable
           THEN /\ ret' = FALSE
                /\ UNCHANGED <<_alarms, _num, file>>
           ELSE LET alarms == [shiftDown(_alarms, idx, _num) EXCEPT ![_num - 1] = Alarm]
                IN  /\ _alarms' = alarms
                    /\ _num' = _num - 1
                    /\ file' = guardarPersonalizablesEnJSON(alarms, _num - 1, file, w).file
                    /\ ret' = TRUE

\* habilitarPersonalizable without the reset of the dedup fields
habilitarPersonalizable_noReset(idWeb, estado, w) ==
    LET idx == _findIndexByWebId(idWeb)
    IN  /\ op' = "enableCustomizable"
        /\ fired' = <<>>
        /\ UNCHANGED <<_num, _nextWebId, t>>
        /\ IF idx >= MAX_ALARMS \/ ~_alarms[idx].isCustomizable
           THEN /\ ret' = FALSE
                /\ UNCHANGED <<_alarms, file>>
           ELSE LET alarms == [_alarms EXCEPT ![idx].enabled = estado]
                IN  /\ _alarms' = alarms
                    /\ file' = guardarPersonalizablesEnJSON(alarms, _num, file, w).file
                    /\ ret' = TRUE

habilitarPersonalizable(idWeb, estado, w) ==
    LET idx == _findIndexByWebId(idWeb)
    IN  /\ op' = "enableCustomizable"
        /\ fired' = <<>>
        /\ UNCHANGED <<_num, _nextWebId, t>>
        /\ IF idx >= MAX_ALARMS \/ ~_alarms[idx].isCustomizable
           THEN /\ ret' = FALSE
                /\ UNCHANGED <<_alarms, file>>
           ELSE LET a      == [_alarms[idx] EXCEPT !.enabled = estado]
                    alarms == [_alarms EXCEPT ![idx] = IF estado THEN resetDedup(a) ELSE a]
                IN  /\ _alarms' = alarms
                    /\ file' = guardarPersonalizablesEnJSON(alarms, _num, file, w).file
                    /\ ret' = TRUE

\* ------------------------------------------------------------------------
\* cargarPersonalizablesDesdeJSON (loadCustomizablesFromJSON)
\* ------------------------------------------------------------------------
\* alarmObj[key] | 0 is an int, stored into a uint8_t: the value modulo 256
jsonU8(v) == v % 256

\* alarmObj["parameter"] | 0 stored into a uint16_t
jsonU16(v) == v % 65536

\* a load that leaves the customizable alarms of the store where they are
removeCustomizables_none(i, alarms, num) == [alarms |-> alarms, num |-> num]

RECURSIVE removeCustomizables(_, _, _)
\* for (i = num - 1; i >= 0; i--) if customizable: shift down, num--
removeCustomizables(i, alarms, num) ==
    IF i < 0 THEN [alarms |-> alarms, num |-> num]
    ELSE IF alarms[i].isCustomizable
    THEN removeCustomizables(i - 1, shiftDown(alarms, i, num), num - 1)
    ELSE removeCustomizables(i - 1, alarms, num)

entryInvalid(e) ==
    \/ Len(e.name) = 0
    \/ jsonU8(e.hour) > 23
    \/ jsonU8(e.minute) > 59
    \/ e.id <= 0

\* day == 0 ? DOW_ALL : 1 << (day - 1), stored in a uint8_t
loadDayMask(day) == IF day = 0 THEN DOW_ALL ELSE Shl8(day - 1)

\* the slot as the load leaves it: the dedup fields, action and
\* externalAction0 are not written
loadSlot(old, e) ==
    [ old EXCEPT
        !.enabled        = e.enabled,
        !.dayMask        = loadDayMask(e.day),
        !.hour           = jsonU8(e.hour),
        !.minute         = jsonU8(e.minute),
        !.intervalMin    = 0,
        !.parameter      = jsonU16(e.parameter),
        !.name           = strncpy(e.name, NAME_SIZE),
        !.description    = strncpy(e.description, DESCRIPTION_SIZE),
        !.typeString     = strncpy(e.action, TYPESTRING_SIZE),
        !.isCustomizable = TRUE,
        !.webId          = e.id,
        !.externalAction = NULL ]

\* webId + 1 in int.  At INT_MAX the addition overflows, which the language
\* leaves undefined; the build has no overflow trap and its add instruction
\* wraps to INT_MIN.  Whatever it left, no int is greater than INT_MAX.
Inc32(webId) == IF webId = INT_MAX THEN (-INT_MAX) - 1 ELSE webId + 1

RECURSIVE loadEntries_noBreak(_, _, _, _, _)
\* loadEntries without the test of the capacity
loadEntries_noBreak(k, entries, alarms, num, nextWebId) ==
    IF k > Len(entries)
    THEN [alarms |-> alarms, num |-> num, nextWebId |-> nextWebId]
    ELSE IF entryInvalid(entries[k])
    THEN loadEntries_noBreak(k + 1, entries, alarms, num, nextWebId)
    ELSE loadEntries_noBreak(k + 1, entries,
                     [alarms EXCEPT ![Min(num, MAX_ALARMS - 1)] = loadSlot(@, entries[k])],
                     num + 1,
                     IF entries[k].id >= nextWebId THEN Inc32(entries[k].id) ELSE nextWebId)

RECURSIVE loadEntries(_, _, _, _, _)
\* for (JsonObject alarmObj : alarmsArray) { ... } from entry k on
loadEntries(k, entries, alarms, num, nextWebId) ==
    IF k > Len(entries) \/ num >= MAX_ALARMS
    THEN [alarms |-> alarms, num |-> num, nextWebId |-> nextWebId]
    ELSE IF entryInvalid(entries[k])
    THEN loadEntries(k + 1, entries, alarms, num, nextWebId)
    ELSE loadEntries(k + 1, entries,
                     [alarms EXCEPT ![num] = loadSlot(alarms[num], entries[k])],
                     num + 1,
                     IF entries[k].id >= nextWebId THEN Inc32(entries[k].id) ELSE nextWebId)

\* the outcomes of SPIFFS.open(file, "r")
ReadOutcomes == {"ok", "openFailed"}

\* a load that empties the registry when the file is missing or unreadable
cargarPersonalizablesDesdeJSON_emptyOnFailure(alarms, num, nextWebId, f, rd, w) ==
    LET kept == removeCustomizables(num - 1, alarms, num)
    IN  IF f.kind = "missing"
        THEN LET sv == guardarPersonalizablesEnJSON(kept.alarms, kept.num, f, w)
             IN  [alarms |-> kept.alarms, num |-> kept.num, nextWebId |-> nextWebId,
                  file |-> sv.file, ret |-> sv.ret]
        ELSE IF rd = "openFailed" \/ f.kind = "corrupt"
        THEN [alarms |-> kept.alarms, num |-> kept.num, nextWebId |-> nextWebId,
              file |-> f, ret |-> FALSE]
        ELSE LET res == loadEntries(1, f.alarms, kept.alarms, kept.num, nextWebId)
             IN  [alarms |-> res.alarms, num |-> res.num, nextWebId |-> res.nextWebId,
                  file |-> f, ret |-> TRUE]

\* a load that writes nothing when the file is missing
cargarPersonalizablesDesdeJSON_noSaveOnMissing(alarms, num, nextWebId, f, rd, w) ==
    IF f.kind = "missing"
    THEN [alarms |-> alarms, num |-> num, nextWebId |-> nextWebId, file |-> f, ret |-> TRUE]
    ELSE IF rd = "openFailed" \/ f.kind = "corrupt"
    THEN [alarms |-> alarms, num |-> num, nextWebId |-> nextWebId,
          file |-> f, ret |-> FALSE]
    ELSE LET kept == removeCustomizables(num - 1, alarms, num)
             res  == loadEntries(1, f.alarms, kept.alarms, kept.num, nextWebId)
         IN  [alarms |-> res.alarms, num |-> res.num, nextWebId |-> res.nextWebId,
              file |-> f, ret |-> TRUE]

\* the whole load as a function of the state it starts from
cargarPersonalizablesDesdeJSON(alarms, num, nextWebId, f, rd, w) ==
    IF f.kind = "missing"
    THEN LET sv == guardarPersonalizablesEnJSON(alarms, num, f, w)
         IN  [alarms |-> alarms, num |-> num, nextWebId |-> nextWebId,
              file |-> sv.file, ret |-> sv.ret]
    ELSE IF rd = "openFailed" \/ f.kind = "corrupt"
    THEN [alarms |-> alarms, num |-> num, nextWebId |-> nextWebId,
          file |-> f, ret |-> FALSE]
    ELSE LET kept == removeCustomizables(num - 1, alarms, num)
             res  == loadEntries(1, f.alarms, kept.alarms, kept.num, nextWebId)
         IN  [alarms |-> res.alarms, num |-> res.num, nextWebId |-> res.nextWebId,
              file |-> f, ret |-> TRUE]

loadCustomizablesFromJSON(rd, w) ==
    LET res == cargarPersonalizablesDesdeJSON(_alarms, _num, _nextWebId, file, rd, w)
    IN  /\ _alarms' = res.alarms
        /\ _num' = res.num
        /\ _nextWebId' = res.nextWebId
        /\ file' = res.file
        /\ ret' = res.ret
        /\ op' = "load"
        /\ fired' = <<>>
        /\ UNCHANGED t

\* begin() without the clear()
begin_noClear(loadDefaults, rd, w) ==
    LET res == cargarPersonalizablesDesdeJSON(_alarms, _num, _nextWebId, file, rd, w)
    IN  /\ _alarms' = res.alarms
        /\ _num' = res.num
        /\ _nextWebId' = res.nextWebId
        /\ file' = res.file
        /\ ret' = TRUE
        /\ op' = "begin"
        /\ fired' = <<>>
        /\ UNCHANGED t

\* begin(): clear(); loadCustomizablesFromJSON(); the default alarms are none
begin(loadDefaults, rd, w) ==
    LET res == cargarPersonalizablesDesdeJSON(_alarms, 0, 1, file, rd, w)
    IN  /\ _alarms' = res.alarms
        /\ _num' = res.num
        /\ _nextWebId' = res.nextWebId
        /\ file' = res.file
        /\ ret' = TRUE
        /\ op' = "begin"
        /\ fired' = <<>>
        /\ UNCHANGED t

\* ------------------------------------------------------------------------
\* The dispatch history
\* ------------------------------------------------------------------------
RECURSIVE events(_, _)
\* one history entry per callback slot check() reached, with the reading
events(calls, r) ==
    IF calls = <<>> THEN <<>>
    ELSE <<[idx |-> Head(calls).idx, tm_yday |-> r.tm_yday, tm_hour |-> r.tm_hour,
            tm_min |-> r.tm_min]>> \o events(Tail(calls), r)

\* the indexes check() dispatched in the last call
firedIdx == {fired[k].idx : k \in DOMAIN fired}

\* ------------------------------------------------------------------------
\* SpecEngine: the matching engine on system alarms, under readings whose
\* wall-clock fields and epoch are independent (clock jumps in either
\* direction, any order of readings)
\* ------------------------------------------------------------------------
EngineDayMasks == {0, DOW_MONDAY}
EngineHours == {8, ALARM_WILDCARD}
EngineMinutes == {0, ALARM_WILDCARD}
EngineIntervals == {0, 1}

\* day 10 is a Monday and day 11 a Tuesday
EngineReadings ==
    { [tm_sec |-> 0, tm_min |-> m, tm_hour |-> h, tm_wday |-> d - 9, tm_yday |-> d, now |-> e] :
        m \in {0, 1}, h \in {8, 9}, d \in {10, 11}, e \in {100, 159, 160} }

EngineInit ==
    /\ Constructed
    /\ file = MissingFile

EngineAdd ==
    \E dm \in EngineDayMasks, h \in EngineHours, m \in EngineMinutes,
       iv \in EngineIntervals, en \in BOOLEAN :
        /\ _num < MaxEngine
        /\ add(dm, h, m, iv, "onTimer", 10, en)
        /\ UNCHANGED log

EngineAddExternal ==
    /\ _num < MaxEngine
    /\ addExternal(DOW_MONDAY, ALARM_WILDCARD, 0, 1, "bell", 10, TRUE)
    /\ UNCHANGED log

EngineAddExternal0 ==
    /\ _num < MaxEngine
    /\ addExternal0(0, 8, 0, 0, "chime", TRUE)
    /\ UNCHANGED log

EngineEnable == \E i \in 0 .. MaxEngine : enable(i) /\ UNCHANGED log

EngineDisable == \E i \in 0 .. MaxEngine : disable(i) /\ UNCHANGED log

EngineCheck == \E r \in EngineReadings : check(r) /\ UNCHANGED log

EngineCheckNoTime == checkNoTime /\ UNCHANGED log

EngineResetCache == resetCache /\ UNCHANGED log

EngineNext ==
    \/ EngineAdd
    \/ EngineAddExternal
    \/ EngineAddExternal0
    \/ EngineEnable
    \/ EngineDisable
    \/ EngineCheck
    \/ EngineCheckNoTime
    \/ EngineResetCache

SpecEngine == EngineInit /\ [][EngineNext]_vars

\* ------------------------------------------------------------------------
\* SpecDay: a host loop that calls check() through whole days on a clock
\* that only moves forward.  The loop may call check() any number of times
\* in a minute and may miss minutes, but it reaches minute 0 of every hour.
\* Alarms are added before the loop starts.
\* ------------------------------------------------------------------------
FirstDay == 10
\* days the loop runs through
MaxDays == 2
\* the moments of an hour the loop can call check() at: <<minute, second>>
DayMoments == {<<0, 0>>, <<0, 30>>, <<1, 0>>}
DaySeconds == {0, 30}
EpochBase == 1000000

SecondsOf(d, h, m, sec) == ((d * 24 + h) * 60 + m) * 60 + sec

DayReading(d, h, m, sec) ==
    [tm_sec |-> sec, tm_min |-> m, tm_hour |-> h, tm_wday |-> d % 7, tm_yday |-> d,
     now |-> EpochBase + SecondsOf(d, h, m, sec)]

DayPoints ==
    { DayReading(d, h, ms[1], ms[2]) :
        d \in FirstDay .. (FirstDay + MaxDays - 1), h \in 0 .. 23, ms \in DayMoments }

HourOf(r) == r.tm_yday * 24 + r.tm_hour

\* the readings the loop can see next: later in this hour, or minute 0 of the next hour
DaySuccessors(r) ==
    { n \in DayPoints :
        /\ n.now > r.now
        /\ \/ HourOf(n) = HourOf(r)
           \/ HourOf(n) = HourOf(r) + 1 /\ n.tm_min = 0 }

DayInit ==
    /\ Constructed
    /\ file = MissingFile

\* a check() whose dispatches are appended to the history
loggedCheck(r) ==
    /\ check(r)
    /\ log' = log \o events(fired', r)

DayAdd ==
    \E h \in EngineHours, m \in {0} :
        /\ t = NoReading
        /\ _num < MaxEngine
        /\ add(0, h, m, 0, "onTimer", 10, TRUE)
        /\ UNCHANGED log

DayAddExternal ==
    /\ t = NoReading
    /\ _num < MaxEngine
    /\ addExternal(DOW_ALL, 8, ALARM_WILDCARD, 0, "bell", 10, TRUE)
    /\ UNCHANGED log

DayStart ==
    \E sec \in DaySeconds :
        /\ t = NoReading
        /\ loggedCheck(DayReading(FirstDay, 0, 0, sec))

DayTick ==
    \E r \in DaySuccessors(t) :
        /\ t # NoReading
        /\ loggedCheck(r)

DayNext ==
    \/ DayAdd
    \/ DayAddExternal
    \/ DayStart
    \/ DayTick

SpecDay == DayInit /\ [][DayNext]_vars

\* ------------------------------------------------------------------------
\* SpecJump: the same loop on a clock that can be set back (a correction of
\* the time source, a change of the time by hand, the end of daylight saving
\* time): the next reading is then minute 0 of an earlier hour.
\* ------------------------------------------------------------------------
\* set-backs of the clock in one run
MaxJumps == 1

SetBack(r) ==
    [idx |-> -1, tm_yday |-> r.tm_yday, tm_hour |-> r.tm_hour, tm_min |-> r.tm_min]

jumps == Cardinality({k \in DOMAIN log : log[k].idx = -1})

\* minute 0 of the hour before, and of the same hour one day before
JumpTargets(r) ==
    { DayReading(r.tm_yday, r.tm_hour - 1, 0, 0) : x \in {1} \cap (1 .. r.tm_hour) }
    \cup { DayReading(r.tm_yday - 1, r.tm_hour, 0, 0) : x \in {1} \cap (1 .. (r.tm_yday - FirstDay)) }

DayJump ==
    \E r \in JumpTargets(t) :
        /\ t # NoReading
        /\ jumps < MaxJumps
        /\ check(r)
        /\ log' = (log \o <<SetBack(r)>>) \o events(fired', r)

JumpNext ==
    \/ DayAdd
    \/ DayAddExternal
    \/ DayStart
    \/ DayTick
    \/ DayJump

SpecJump == DayInit /\ [][JumpNext]_vars

\* ------------------------------------------------------------------------
\* SpecSecond: the host loop of the example, which calls check() in every
\* second of a clock that moves forward, with the interval alarm of the
\* README (every day, any hour, anchor minute 0, every 15 minutes) added in
\* setup().  The loop starts around 23:00 and runs past midnight.
\* ------------------------------------------------------------------------
\* seconds the loop runs after 23:00:00 of the first day
SecondSpan == 7500

\* the second after 23:00:00 of the first check(): 23:00:00, 23:00:59, 23:01:00
SecondStarts == {0, 59, 60}

\* the reading s seconds after 23:00:00 of the first day
SecondReading(s) ==
    LET x == 23 * 3600 + s
    IN  DayReading(FirstDay + (x \div 86400), (x \div 3600) % 24, (x \div 60) % 60, x % 60)

\* seconds after 23:00:00 of the first day of the reading r
SecondOf(r) == r.now - EpochBase - SecondsOf(FirstDay, 23, 0, 0)

SecondInit ==
    /\ Constructed
    /\ file = MissingFile

SecondAddExternal ==
    /\ t = NoReading
    /\ _num < MaxEngine
    /\ addExternal(DOW_ALL, ALARM_WILDCARD, 0, 15, "intervalCheck", 42, TRUE)
    /\ UNCHANGED log

SecondStart ==
    \E s \in SecondStarts :
        /\ t = NoReading
        /\ _num = MaxEngine
        /\ loggedCheck(SecondReading(s))

SecondTick ==
    /\ t # NoReading
    /\ SecondOf(t) < SecondSpan
    /\ loggedCheck(SecondReading(SecondOf(t) + 1))

SecondNext ==
    \/ SecondAddExternal
    \/ SecondStart
    \/ SecondTick

SpecSecond == SecondInit /\ [][SecondNext]_vars

\* ------------------------------------------------------------------------
\* The file system at boot: /customizable_alarms.json as something else
\* than the scheduler left it (the filesystem image, an upload, an edit)
\* ------------------------------------------------------------------------
NameA == <<"A">>
NameB == <<"B">>
BELL == <<"B", "E", "L", "L">>

\* one object of the document's "alarms" array
DocEntry(id, name, day, hour) ==
    [ id          |-> id,
      name        |-> name,
      description |-> <<>>,
      day         |-> day,
      hour        |-> hour,
      minute      |-> 0,
      action      |-> BELL,
      enabled     |-> TRUE,
      parameter   |-> 10 ]

DocumentWith(es) == [kind |-> "document", total |-> Len(es), alarms |-> es]

\* entries of a document the scheduler did not write: an id the load
\* rejects, two valid entries with the same id, a multi-digit id
ForeignEntries ==
    << DocEntry(0, NameA, 0, 8), DocEntry(1, NameA, 0, 8), DocEntry(1, NameB, 1, 8),
       DocEntry(12, NameB, 0, 8), DocEntry(12, NameA, 1, 8) >>

StoredFiles ==
    {MissingFile, CorruptFile}
    \cup {DocumentWith(SubSeq(ForeignEntries, 1, Min(n, Len(ForeignEntries)))) : n \in 0 .. MaxDoc}

\* a document with one valid entry more than the store holds
LongDocument == DocumentWith([k \in 1 .. (MAX_ALARMS + 1) |-> DocEntry(k, NameA, 0, 8)])

\* ------------------------------------------------------------------------
\* Spec: every public operation on a small store, in any order, starting
\* from any stored file
\* ------------------------------------------------------------------------
\* system alarms the environment adds under Spec
MaxSystem == 1

systemAlarms == Cardinality({i \in 0 .. (_num - 1) : ~_alarms[i].isCustomizable})

\* the outcomes of a write drawn under Spec
Writes == {"ok"}

WebIds == {-1} \cup (1 .. (MaxStore + 1))

\* Monday 08:00
Readings ==
    { [tm_sec |-> 0, tm_min |-> 0, tm_hour |-> 8, tm_wday |-> 1, tm_yday |-> 10, now |-> 100] }

Init ==
    /\ Constructed
    /\ file \in StoredFiles

Add ==
    /\ _num < MaxStore
    /\ systemAlarms < MaxSystem
    /\ add(DOW_ALL, 8, 0, 0, "onTimer", 10, TRUE)
    /\ UNCHANGED log

AddExternal ==
    /\ _num < MaxStore
    /\ systemAlarms < MaxSystem
    /\ addExternal(0, ALARM_WILDCARD, 0, 1, "bell", 20, TRUE)
    /\ UNCHANGED log

AddExternal0 ==
    /\ _num < MaxStore
    /\ systemAlarms < MaxSystem
    /\ addExternal0(DOW_MONDAY, 8, ALARM_WILDCARD, 0, "chime", FALSE)
    /\ UNCHANGED log

AddCustomizable ==
    \E w \in Writes :
        /\ _num < MaxStore
        /\ addPersonalizable(NameA, <<>>, DOW_ALL, 8, 0, BELL, 10, "bell", TRUE, w)
        /\ UNCHANGED log

ModifyCustomizable ==
    \E id \in WebIds, cb \in {"chime", NULL}, w \in Writes :
        /\ modificarPersonalizable(id, NameB, <<>>, DOW_MONDAY, 8, 1, BELL, TRUE, cb, 30, w)
        /\ UNCHANGED log

DeleteCustomizable ==
    \E id \in WebIds, w \in Writes :
        eliminarPersonalizable(id, w) /\ UNCHANGED log

EnableCustomizable ==
    \E id \in WebIds, estado \in BOOLEAN, w \in Writes :
        habilitarPersonalizable(id, estado, w) /\ UNCHANGED log

LoadCustomizables ==
    \E rd \in ReadOutcomes, w \in Writes :
        loadCustomizablesFromJSON(rd, w) /\ UNCHANGED log

\* clear() of a store that holds at most one alarm
Clear ==
    /\ _num <= 1
    /\ clear
    /\ UNCHANGED log

Check == \E r \in Readings : check(r) /\ UNCHANGED log

CheckNoTime == checkNoTime /\ UNCHANGED log

Next ==
    \/ Add
    \/ AddExternal
    \/ AddExternal0
    \/ AddCustomizable
    \/ ModifyCustomizable
    \/ DeleteCustomizable
    \/ EnableCustomizable
    \/ LoadCustomizables
    \/ Clear
    \/ Check
    \/ CheckNoTime

Spec == Init /\ [][Next]_vars

\* ------------------------------------------------------------------------
\* SpecCap: the store filled to its capacity.  System alarms are added
\* before customizable ones, the operation chosen by the position; the
\* registry operations address the customizable alarm added last, and
\* modifyCustomizable changes it once the store is full.
\* ------------------------------------------------------------------------
\* system alarms the environment adds under SpecCap
MaxCapSystem == 3

onlySystem == systemAlarms = _num

full == _num >= MAX_ALARMS

liveIds == {_alarms[i].webId : i \in {j \in 0 .. (_num - 1) : _alarms[j].isCustomizable}}

\* an id no alarm has and the highest live id
CapIds == {-1} \cup {id \in liveIds : \A o \in liveIds : id >= o}

CapInit ==
    /\ Constructed
    /\ file \in {MissingFile, LongDocument}

CapBegin ==
    /\ _num <= 1
    /\ begin(FALSE, "ok", "ok")
    /\ UNCHANGED log

CapAdd ==
    /\ full \/ (onlySystem /\ _num < MaxCapSystem /\ _num % 3 = 0)
    /\ add(DOW_ALL, 8, 0, 0, "onTimer", 10, TRUE)
    /\ UNCHANGED log

CapAddExternal ==
    /\ full \/ (onlySystem /\ _num < MaxCapSystem /\ _num % 3 = 1)
    /\ addExternal(DOW_ALL, 8, 0, 0, "bell", 10, TRUE)
    /\ UNCHANGED log

CapAddExternal0 ==
    /\ full \/ (onlySystem /\ _num < MaxCapSystem /\ _num % 3 = 2)
    /\ addExternal0(DOW_ALL, 8, 0, 0, "chime", TRUE)
    /\ UNCHANGED log

CapAddCustomizable ==
    /\ addPersonalizable(NameA, <<>>, DOW_ALL, 8, 0, BELL, 10, "bell", TRUE, "ok")
    /\ UNCHANGED log

CapModifyCustomizable ==
    \E id \in CapIds :
        /\ full \/ id = -1
        /\ modificarPersonalizable(id, NameB, <<>>, DOW_MONDAY, 8, 1, BELL, TRUE, "chime", 30, "ok")
        /\ UNCHANGED log

CapDeleteCustomizable ==
    \E id \in CapIds : eliminarPersonalizable(id, "ok") /\ UNCHANGED log

CapEnableCustomizable ==
    \E id \in CapIds : habilitarPersonalizable(id, TRUE, "ok") /\ UNCHANGED log

\* the load at startup: no customizable alarm is in the store yet
CapLoadCustomizables ==
    /\ onlySystem
    /\ loadCustomizablesFromJSON("ok", "ok")
    /\ UNCHANGED log

CapClear ==
    /\ _num <= 1
    /\ clear
    /\ UNCHANGED log

CapNext ==
    \/ CapBegin
    \/ CapAdd
    \/ CapAddExternal
    \/ CapAddExternal0
    \/ CapAddCustomizable
    \/ CapModifyCustomizable
    \/ CapDeleteCustomizable
    \/ CapEnableCustomizable
    \/ CapLoadCustomizables
    \/ CapClear

SpecCap == CapInit /\ [][CapNext]_vars

\* ------------------------------------------------------------------------
\* SpecSave: the registry operations with every outcome of the file write,
\* on a store of one system alarm and customizable alarms
\* ------------------------------------------------------------------------
SaveInit ==
    /\ Constructed
    /\ file \in {MissingFile, DocumentWith(<<DocEntry(12, NameB, 0, 8)>>)}

SaveAddExternal ==
    /\ _num < MaxStore
    /\ systemAlarms < MaxSystem
    /\ addExternal(DOW_ALL, 8, 0, 0, "bell", 20, TRUE)
    /\ UNCHANGED log

SaveAddCustomizable ==
    \E w \in WriteOutcomes :
        /\ _num < MaxStore
        /\ addPersonalizable(NameA, <<>>, DOW_ALL, 8, 0, BELL, 10, "bell", TRUE, w)
        /\ UNCHANGED log

SaveModifyCustomizable ==
    \E id \in WebIds, cb \in {"chime", NULL}, w \in WriteOutcomes :
        /\ modificarPersonalizable(id, NameB, <<>>, DOW_MONDAY, 8, 1, BELL, TRUE, cb, 30, w)
        /\ UNCHANGED log

SaveDeleteCustomizable ==
    \E id \in WebIds, w \in WriteOutcomes :
        eliminarPersonalizable(id, w) /\ UNCHANGED log

SaveEnableCustomizable ==
    \E id \in WebIds, estado \in BOOLEAN, w \in WriteOutcomes :
        habilitarPersonalizable(id, estado, w) /\ UNCHANGED log

SaveNext ==
    \/ SaveAddExternal
    \/ SaveAddCustomizable
    \/ SaveModifyCustomizable
    \/ SaveDeleteCustomizable
    \/ SaveEnableCustomizable

SpecSave == SaveInit /\ [][SaveNext]_vars

\* ------------------------------------------------------------------------
\* SpecCodec: the round trip of the persistence codec.  Customizable alarms
\* of every kind the registry accepts are added or modified (each call
\* saves the document), then the document is loaded again.
\* ------------------------------------------------------------------------
\* customizable alarms the environment adds under SpecCodec
MaxCodec == 2

\* every day, one day, two days (Monday and Friday), no bit set
CodecDayMasks == {DOW_ALL, DOW_MONDAY, DOW_MONDAY + DOW_FRIDAY, 0}

CodecHours == {8, ALARM_WILDCARD}

CodecInit ==
    /\ Constructed
    /\ file = MissingFile

CodecAddCustomizable ==
    \E dm \in CodecDayMasks, h \in CodecHours, en \in BOOLEAN :
        /\ _num < MaxCodec
        /\ addPersonalizable(NameA, <<>>, dm, h, 0, BELL, 10, "bell", en, "ok")
        /\ UNCHANGED log

\* the call of the README's "Dynamic Alarm Modification"
CodecModifyCustomizable ==
    \E id \in 1 .. MaxCodec :
        /\ modificarPersonalizable(id, NameB, <<>>, DOW_MONDAY + DOW_FRIDAY, 9, 30, BELL, TRUE,
                                   "chime", 15, "ok")
        /\ UNCHANGED log

CodecLoadCustomizables ==
    /\ loadCustomizablesFromJSON("ok", "ok")
    /\ UNCHANGED log

CodecNext ==
    \/ CodecAddCustomizable
    \/ CodecModifyCustomizable
    \/ CodecLoadCustomizables

SpecCodec == CodecInit /\ [][CodecNext]_vars

\* ------------------------------------------------------------------------
\* SpecLoad: the load of any stored file into a store that holds a system
\* alarm and customizable alarms.  The documents hold valid entries and
\* entries with each of the defects the load tests for.
\* ------------------------------------------------------------------------
\* entries of a stored document under SpecLoad
MaxLoadDoc == 2

\* two valid entries; an empty name, hour 24, minute 60, id 0; hour 256
LoadEntries ==
    { DocEntry(1, NameA, 0, 8),
      DocEntry(2, NameB, 1, 8),
      DocEntry(3, <<>>, 0, 8),
      DocEntry(3, NameA, 0, 24),
      [DocEntry(3, NameA, 0, 8) EXCEPT !.minute = 60],
      DocEntry(0, NameA, 0, 8),
      DocEntry(3, NameA, 0, 256) }

LoadFiles ==
    {MissingFile, CorruptFile}
    \cup {DocumentWith(es) : es \in UNION {[1 .. n -> LoadEntries] : n \in 0 .. MaxLoadDoc}}

LoadInit ==
    /\ Constructed
    /\ file \in LoadFiles

LoadAddExternal ==
    /\ _num < MaxStore
    /\ systemAlarms < MaxSystem
    /\ addExternal(DOW_ALL, 8, 0, 0, "bell", 20, TRUE)
    /\ UNCHANGED log

LoadAddCustomizable ==
    \E w \in WriteOutcomes :
        /\ _num < MaxStore
        /\ addPersonalizable(NameB, <<>>, DOW_MONDAY, 8, 0, BELL, 30, "chime", TRUE, w)
        /\ UNCHANGED log

LoadCheck == \E r \in Readings : check(r) /\ UNCHANGED log

LoadLoadCustomizables ==
    \E rd \in ReadOutcomes, w \in WriteOutcomes :
        loadCustomizablesFromJSON(rd, w) /\ UNCHANGED log

LoadNext ==
    \/ LoadAddExternal
    \/ LoadAddCustomizable
    \/ LoadCheck
    \/ LoadLoadCustomizables

SpecLoad == LoadInit /\ [][LoadNext]_vars

\* ------------------------------------------------------------------------
\* SpecMask: the four creation operations called with a day mask of 0 and
\* with the mask of one day, and check() on a Monday and on a Tuesday
\* ------------------------------------------------------------------------
MaskDayMasks == {0, DOW_MONDAY}

\* 08:00 on day 10, a Monday, and on day 11, a Tuesday
MaskReadings ==
    { [tm_sec |-> 0, tm_min |-> 0, tm_hour |-> 8, tm_wday |-> d - 9, tm_yday |-> d,
       now |-> 100 + (d - 10) * 86400] : d \in {10, 11} }

MaskInit ==
    /\ Constructed
    /\ file = MissingFile

MaskAdd ==
    \E dm \in MaskDayMasks :
        /\ _num < MaxStore
        /\ add(dm, 8, 0, 0, "onTimer", 10, TRUE)
        /\ UNCHANGED log

MaskAddExternal ==
    \E dm \in MaskDayMasks :
        /\ _num < MaxStore
        /\ addExternal(dm, 8, 0, 0, "bell", 10, TRUE)
        /\ UNCHANGED log

MaskAddExternal0 ==
    \E dm \in MaskDayMasks :
        /\ _num < MaxStore
        /\ addExternal0(dm, 8, 0, 0, "chime", TRUE)
        /\ UNCHANGED log

MaskAddCustomizable ==
    \E dm \in MaskDayMasks :
        /\ _num < MaxStore
        /\ addPersonalizable(NameA, <<>>, dm, 8, 0, BELL, 10, "bell", TRUE, "ok")
        /\ UNCHANGED log

MaskCheck == \E r \in MaskReadings : check(r) /\ UNCHANGED log

MaskNext ==
    \/ MaskAdd
    \/ MaskAddExternal
    \/ MaskAddExternal0
    \/ MaskAddCustomizable
    \/ MaskCheck

SpecMask == MaskInit /\ [][MaskNext]_vars

\* ------------------------------------------------------------------------
\* SpecWeekday: the load of a document whose entry carries any small day
\* value, and check() at 08:00 on each day of a week
\* ------------------------------------------------------------------------
\* the day values of the entry: 0, the seven weekdays, and two above
DayValues == 0 .. 9

\* 08:00 on the days 10 .. 16: one reading per weekday
WeekdayReadings ==
    { [tm_sec |-> 0, tm_min |-> 0, tm_hour |-> 8, tm_wday |-> d % 7, tm_yday |-> d,
       now |-> 100 + (d - 10) * 86400] : d \in 10 .. 16 }

WeekdayInit ==
    /\ Constructed
    /\ file \in {DocumentWith(<<DocEntry(1, NameA, d, 8)>>) : d \in DayValues}

WeekdayLoad ==
    /\ loadCustomizablesFromJSON("ok", "ok")
    /\ UNCHANGED log

WeekdayCheck == \E r \in WeekdayReadings : check(r) /\ UNCHANGED log

WeekdayNext ==
    \/ WeekdayLoad
    \/ WeekdayCheck

SpecWeekday == WeekdayInit /\ [][WeekdayNext]_vars

\* ------------------------------------------------------------------------
\* SpecBegin: begin() called on a store that holds a system alarm and
\* customizable alarms, fired or not, with any stored file
\* ------------------------------------------------------------------------
BeginInit ==
    /\ Constructed
    /\ file \in LoadFiles

BeginAddExternal ==
    /\ _num < MaxStore
    /\ systemAlarms < MaxSystem
    /\ addExternal(DOW_ALL, 8, 0, 0, "bell", 20, TRUE)
    /\ UNCHANGED log

BeginAddCustomizable ==
    \E w \in WriteOutcomes :
        /\ _num < MaxStore
        /\ addPersonalizable(NameB, <<>>, DOW_MONDAY, 8, 0, BELL, 30, "chime", TRUE, w)
        /\ UNCHANGED log

BeginCheck == \E r \in Readings : check(r) /\ UNCHANGED log

BeginBegin ==
    \E loadDefaults \in BOOLEAN, rd \in ReadOutcomes, w \in WriteOutcomes :
        begin(loadDefaults, rd, w) /\ UNCHANGED log

BeginNext ==
    \/ BeginAddExternal
    \/ BeginAddCustomizable
    \/ BeginCheck
    \/ BeginBegin

SpecBegin == BeginInit /\ [][BeginNext]_vars

\* ------------------------------------------------------------------------
\* SpecReentrant: check() whose callbacks call back into the scheduler.
\* The callback "deleteById" is
\*     void deleteById(uint16_t id) { scheduler.deleteCustomizable(id); }
\* registered with the id to delete as the alarm's parameter; "bell" does
\* not touch the scheduler.
\* ------------------------------------------------------------------------
\* eliminarPersonalizable on the values the loop of check() holds
deleteCustomizableIn(alarms, num, old, idWeb, w) ==
    LET idx == findFrom(0, alarms, num, idWeb)
    IN  IF idx >= MAX_ALARMS \/ ~alarms[idx].isCustomizable
        THEN [alarms |-> alarms, num |-> num, file |-> old]
        ELSE LET shifted == [shiftDown(alarms, idx, num) EXCEPT ![num - 1] = Alarm]
             IN  [alarms |-> shifted, num |-> num - 1,
                  file |-> guardarPersonalizablesEnJSON(shifted, num - 1, old, w).file]

\* the store and the file after the callback of the alarm at index i ran
called(i, alarms, num, old, w) ==
    IF invoked(i, alarms[i]).fn = "deleteById"
    THEN deleteCustomizableIn(alarms, num, old, alarms[i].parameter, w)
    ELSE [alarms |-> alarms, num |-> num, file |-> old]

RECURSIVE checkLoopReentrant(_, _, _, _, _, _, _)
\* for (i = 0; i < _num; ++i) { Alarm &alarm = _alarms[i]; ... } from index
\* i on: _num is read again at every turn, and "alarm" is slot i whatever
\* the callback moved into it
checkLoopReentrant(i, alarms, num, old, calls, r, w) ==
    IF i >= num THEN [alarms |-> alarms, num |-> num, file |-> old, calls |-> calls]
    ELSE IF skipped(alarms[i], r) \/ ~trigger(alarms[i], r)
    THEN checkLoopReentrant(i + 1, alarms, num, old, calls, r, w)
    ELSE LET after == called(i, alarms, num, old, w)
             call  == [idx |-> i, kind |-> invoked(i, alarms[i]).kind,
                       fn |-> invoked(i, alarms[i]).fn,
                       parameter |-> invoked(i, alarms[i]).parameter,
                       webId |-> alarms[i].webId]
         IN  checkLoopReentrant(i + 1,
                                [after.alarms EXCEPT ![i] = updateCache(after.alarms[i], r)],
                                after.num, after.file, Append(calls, call), r, w)

\* check() with getLocalTime succeeding; every dispatch is recorded with
\* the webId of the alarm it was made for
checkReentrant(r, w) ==
    LET res == checkLoopReentrant(0, _alarms, _num, file, <<>>, r, w)
    IN  /\ _alarms' = res.alarms
        /\ _num' = res.num
        /\ file' = res.file
        /\ fired' = res.calls
        /\ t' = r
        /\ op' = "check"
        /\ ret' = 0
        /\ UNCHANGED _nextWebId

\* 08:00 on a Monday and on the Tuesday after
ReentrantReadings ==
    { [tm_sec |-> 0, tm_min |-> 0, tm_hour |-> 8, tm_wday |-> 1, tm_yday |-> 10, now |-> 100],
      [tm_sec |-> 0, tm_min |-> 0, tm_hour |-> 8, tm_wday |-> 2, tm_yday |-> 11, now |-> 86500] }

ReentrantInit ==
    /\ Constructed
    /\ file = MissingFile

ReentrantAddExternal ==
    /\ _num < MaxStore
    /\ systemAlarms < MaxSystem
    /\ addExternal(DOW_ALL, 8, 0, 0, "bell", 20, TRUE)
    /\ UNCHANGED log

ReentrantAddCustomizable ==
    \E cb \in {"bell", "deleteById"}, id \in 1 .. MaxStore :
        /\ _num < MaxStore
        /\ addPersonalizable(NameA, <<>>, DOW_ALL, 8, 0, BELL, id, cb, TRUE, "ok")
        /\ UNCHANGED log

ReentrantDeleteCustomizable ==
    \E id \in 1 .. MaxStore :
        eliminarPersonalizable(id, "ok") /\ UNCHANGED log

ReentrantCheck ==
    \E r \in ReentrantReadings, w \in WriteOutcomes :
        checkReentrant(r, w) /\ UNCHANGED log

ReentrantNext ==
    \/ ReentrantAddExternal
    \/ ReentrantAddCustomizable
    \/ ReentrantDeleteCustomizable
    \/ ReentrantCheck

SpecReentrant == ReentrantInit /\ [][ReentrantNext]_vars

\* ------------------------------------------------------------------------
\* SpecPersist: the operations that address an alarm by its index, and
\* clear(), on a store with customizable alarms whose document the
\* scheduler wrote; every write of the file succeeds
\* ------------------------------------------------------------------------
PersistInit ==
    /\ Constructed
    /\ file = MissingFile

PersistAddExternal ==
    /\ _num < MaxStore
    /\ systemAlarms < MaxSystem
    /\ addExternal(DOW_ALL, 8, 0, 0, "bell", 20, TRUE)
    /\ UNCHANGED log

PersistAddCustomizable ==
    \E habilitada \in BOOLEAN :
        /\ _num < MaxStore
        /\ addPersonalizable(NameA, <<>>, DOW_ALL, 8, 0, BELL, 10, "bell", habilitada, "ok")
        /\ UNCHANGED log

PersistEnableCustomizable ==
    \E id \in 1 .. MaxStore, estado \in BOOLEAN :
        habilitarPersonalizable(id, estado, "ok") /\ UNCHANGED log

PersistDisable == \E idx \in 0 .. MaxStore : disable(idx) /\ UNCHANGED log

PersistEnable == \E idx \in 0 .. MaxStore : enable(idx) /\ UNCHANGED log

PersistClear == clear /\ UNCHANGED log

PersistLoadCustomizables ==
    \E rd \in ReadOutcomes :
        loadCustomizablesFromJSON(rd, "ok") /\ UNCHANGED log

PersistNext ==
    \/ PersistAddExternal
    \/ PersistAddCustomizable
    \/ PersistEnableCustomizable
    \/ PersistDisable
    \/ PersistEnable
    \/ PersistClear
    \/ PersistLoadCustomizables

SpecPersist == PersistInit /\ [][PersistNext]_vars

\* ------------------------------------------------------------------------
\* SpecCounter: the load of documents whose ids go up to the largest int,
\* on a store that holds at most one system alarm
\* ------------------------------------------------------------------------
\* entries of a document under SpecCounter
MaxCounterDoc == 2

CounterIds == {1, 2, INT_MAX}

CounterFiles ==
    {MissingFile}
    \cup {DocumentWith(es) :
            es \in UNION {[1 .. n -> {DocEntry(id, NameA, 0, 8) : id \in CounterIds}] :
                            n \in 0 .. MaxCounterDoc}}

CounterInit ==
    /\ Constructed
    /\ file \in CounterFiles

CounterAddExternal ==
    /\ _num < MaxStore
    /\ systemAlarms < MaxSystem
    /\ addExternal(DOW_ALL, 8, 0, 0, "bell", 20, TRUE)
    /\ UNCHANGED log

CounterLoadCustomizables ==
    \E rd \in ReadOutcomes, w \in WriteOutcomes :
        loadCustomizablesFromJSON(rd, w) /\ UNCHANGED log

CounterClear == clear /\ UNCHANGED log

CounterCheck == \E r \in Readings : check(r) /\ UNCHANGED log

CounterNext ==
    \/ CounterAddExternal
    \/ CounterLoadCustomizables
    \/ CounterClear
    \/ CounterCheck

SpecCounter == CounterInit /\ [][CounterNext]_vars

\* ------------------------------------------------------------------------
\* Vocabulary of the properties
\* ------------------------------------------------------------------------
Live == 0 .. (_num - 1)

\* bit wday of the mask is set
eligible(mask, wday) == wday \in 0 .. 6 /\ (mask \div (2 ^ wday)) % 2 = 1

\* the history entries of the alarm at index i
LogOf(i) == SelectSeq(log, LAMBDA e : e.idx = i)

\* how often the alarm at index i was dispatched in hour h of day d
FiredInHour(i, d, h) ==
    Cardinality({k \in DOMAIN log :
                   log[k].idx = i /\ log[k].tm_yday = d /\ log[k].tm_hour = h})

\* the loop has called check() in minute 0 of hour h of day d
Reached(d, h) == t # NoReading /\ HourOf(t) >= d * 24 + h

Days == FirstDay .. (FirstDay + MaxDays - 1)

FixedHour(i) ==
    _alarms[i].intervalMin = 0 /\ _alarms[i].hour # ALARM_WILDCARD

\* ------------------------------------------------------------------------
\* C1 (as stated): a fixed-hour alarm with intervalMin = 0 is dispatched at
\* most once among all check() calls whose readings share (dayOfYear, minute).
\* Violated under SpecJump: the pair comes back after the clock was set back.
\* ------------------------------------------------------------------------
C1_OncePerDayMinutePair ==
    \A i \in Live : FixedHour(i) =>
        \A j, k \in DOMAIN log :
            (j < k /\ log[j].idx = i /\ log[k].idx = i) =>
                <<log[j].tm_yday, log[j].tm_min>> # <<log[k].tm_yday, log[k].tm_min>>

\* C1 (amended): a fixed-hour alarm with intervalMin = 0 is never dispatched
\* twice in succession for the same (dayOfYear, minute) pair: between two of
\* its dispatches on the same pair lies a dispatch of it on another pair.
C1_NoRepeatOfLastPair ==
    \A i \in Live : FixedHour(i) =>
        LET L == LogOf(i)
        IN  \A k \in 1 .. (Len(L) - 1) :
                <<L[k].tm_yday, L[k].tm_min>> # <<L[k + 1].tm_yday, L[k + 1].tm_min>>

\* a check() in the minute the alarm last fired in, which did not fire it
C1_Witness ==
    /\ _num > 0 /\ FixedHour(0) /\ _alarms[0].enabled
    /\ op = "check" /\ fired = <<>>
    /\ t.tm_hour = _alarms[0].hour
    /\ LogOf(0) # <<>>
    /\ LET e == LogOf(0)[Len(LogOf(0))]
       IN  e.tm_yday = t.tm_yday /\ e.tm_min = t.tm_min

\* ------------------------------------------------------------------------
\* C2: an enabled alarm with wildcard hour, minute 0, intervalMin 0 and all
\* days eligible, checked in minute 0 of every hour with readings in time
\* order, is dispatched exactly once in each hour reached (24 times in a
\* whole day), never twice in an hour, and in no other minute.
\* ------------------------------------------------------------------------
Chime(i) ==
    /\ _alarms[i].enabled /\ _alarms[i].intervalMin = 0 /\ _alarms[i].dayMask = DOW_ALL
    /\ _alarms[i].hour = ALARM_WILDCARD /\ _alarms[i].minute = 0

C2_ChimeOncePerHour ==
    \A i \in Live : Chime(i) =>
        /\ \A d \in Days, h \in 0 .. 23 :
               FiredInHour(i, d, h) = IF Reached(d, h) THEN 1 ELSE 0
        /\ \A k \in DOMAIN log : log[k].idx = i => log[k].tm_min = 0

\* the first day is over and the chime fired in each of its 24 hours
C2_Witness ==
    /\ _num > 0 /\ Chime(0)
    /\ t # NoReading /\ t.tm_yday = FirstDay + 1
    /\ \A h \in 0 .. 23 : FiredInHour(0, FirstDay, h) = 1
    /\ Len(LogOf(0)) >= 25

\* ------------------------------------------------------------------------
\* C3: once an interval alarm has fired at epoch e (lastExecution = e # 0),
\* a check() on the enabled, day-eligible alarm dispatches it if and only if
\* reading.now - e >= intervalMin * 60, whatever the wall-clock fields; and
\* a dispatch at epoch now leaves lastExecution = now.
\* ------------------------------------------------------------------------
C3_IntervalElapsed ==
    [][ op' = "check" =>
          \A i \in Live :
            /\ ( /\ _alarms[i].intervalMin > 0
                 /\ _alarms[i].lastExecution # 0
                 /\ _alarms[i].enabled
                 /\ eligible(_alarms[i].dayMask, t'.tm_wday) )
               => ( (i \in firedIdx') <=>
                    (t'.now - _alarms[i].lastExecution >= _alarms[i].intervalMin * 60) )
            /\ (_alarms[i].intervalMin > 0 /\ i \in firedIdx')
               => _alarms'[i].lastExecution = t'.now ]_vars

\* an interval alarm anchored at hour 8 that fired again at hour 9 of the
\* other day, one interval after its first firing
C3_Witness ==
    /\ _num > 0 /\ op = "check" /\ 0 \in firedIdx
    /\ _alarms[0].intervalMin = 1 /\ _alarms[0].hour = 8
    /\ t.tm_hour = 9 /\ t.now = 160
    /\ _alarms[0].lastExecution = 160

\* ------------------------------------------------------------------------
\* C4: an interval alarm that has never fired (lastExecution = 0) is
\* dispatched by a check() only if its anchor matches the reading, and if
\* it is enabled and day-eligible it is dispatched whenever the anchor
\* matches, whatever the epoch; only a dispatch ends the never-fired state.
\* ------------------------------------------------------------------------
anchorMatches(a, r) ==
    /\ a.hour \in {ALARM_WILDCARD, r.tm_hour}
    /\ a.minute \in {ALARM_WILDCARD, r.tm_min}

C4_FirstFiringByAnchor ==
    [][ \A i \in Live :
          (_alarms[i].intervalMin > 0 /\ _alarms[i].lastExecution = 0 /\ i < _num') =>
            /\ (op' = "check" /\ i \in firedIdx') => anchorMatches(_alarms[i], t')
            /\ ( /\ op' = "check" /\ _alarms[i].enabled
                 /\ eligible(_alarms[i].dayMask, t'.tm_wday)
                 /\ anchorMatches(_alarms[i], t') ) => i \in firedIdx'
            /\ _alarms'[i].lastExecution # 0 => (op' = "check" /\ i \in firedIdx') ]_vars

\* a never-fired interval alarm checked off its anchor long after epoch 0:
\* not dispatched
C4_Witness ==
    /\ _num > 0 /\ op = "check" /\ fired = <<>>
    /\ _alarms[0].intervalMin = 1 /\ _alarms[0].enabled /\ _alarms[0].dayMask = DOW_ALL
    /\ _alarms[0].hour = 8 /\ _alarms[0].lastExecution = 0
    /\ t.tm_hour = 9 /\ t.now = 160

\* ------------------------------------------------------------------------
\* C5: check() never dispatches an alarm that is disabled or whose dayMask
\* lacks the bit of the reading's weekday, whatever its kind.
\* ------------------------------------------------------------------------
C5_EnabledAndDayEligible ==
    op = "check" =>
        \A k \in DOMAIN fired :
            /\ fired[k].idx \in Live
            /\ _alarms[fired[k].idx].enabled
            /\ eligible(_alarms[fired[k].idx].dayMask, t.tm_wday)

\* a Monday-only interval alarm whose interval has elapsed, checked on a
\* Tuesday: not dispatched
C5_Witness ==
    /\ _num > 0 /\ op = "check" /\ fired = <<>>
    /\ _alarms[0].enabled /\ _alarms[0].dayMask = DOW_MONDAY
    /\ _alarms[0].intervalMin = 1 /\ _alarms[0].lastExecution = 100
    /\ t.tm_wday = 2 /\ t.now = 160

\* ------------------------------------------------------------------------
\* C6: an enabled fixed-time alarm (08:00, intervalMin 0, all days) is
\* dispatched by the first check() of every day that reads 08:00, also on
\* the day after it fired, and by no later check() of that minute: once the
\* loop has read 08:00 of a day the history holds exactly one dispatch of
\* that day, at 08:00.
\* ------------------------------------------------------------------------
Bell(i) ==
    /\ _alarms[i].enabled /\ _alarms[i].intervalMin = 0 /\ _alarms[i].dayMask = DOW_ALL
    /\ _alarms[i].hour = 8 /\ _alarms[i].minute = 0

C6_FiresFirstCheckEachDay ==
    \A i \in Live : Bell(i) =>
        /\ \A d \in Days :
               Cardinality({k \in DOMAIN log : log[k].idx = i /\ log[k].tm_yday = d})
                 = IF Reached(d, 8) THEN 1 ELSE 0
        /\ \A k \in DOMAIN log :
               log[k].idx = i => (log[k].tm_hour = 8 /\ log[k].tm_min = 0)
        /\ (op = "check" /\ t.tm_hour = 8 /\ t.tm_min = 0 /\ t.tm_sec = 0) => i \in firedIdx

\* the second check() of minute 08:00 on the second day: the alarm fired on
\* both days and is not fired again
C6_Witness ==
    /\ _num > 0 /\ Bell(0)
    /\ op = "check" /\ fired = <<>>
    /\ t.tm_yday = FirstDay + 1 /\ t.tm_hour = 8 /\ t.tm_min = 0 /\ t.tm_sec = 30
    /\ Len(LogOf(0)) = 2

\* ------------------------------------------------------------------------
\* C7, C8: the capacity of the store
\* ------------------------------------------------------------------------
\* C7: under any sequence of add, addExternal, addExternal0,
\* addCustomizable, modifyCustomizable, deleteCustomizable,
\* enableCustomizable, clear, begin and load (of documents of any length)
\* the number of alarms in the store is between 0 and 16.
C7_CountWithinCapacity == _num \in 0 .. MAX_ALARMS

\* a load of a document with more valid entries than the store holds has
\* filled the store and stopped
C7_Witness ==
    /\ op = "load"
    /\ file.kind = "document" /\ Len(file.alarms) > MAX_ALARMS
    /\ _num = MAX_ALARMS

AddOps == {"add", "addExternal", "addExternal0", "addCustomizable"}

\* the values a successful add operation returns: the indexes of the store
SuccessValues == 0 .. (MAX_ALARMS - 1)

\* C8: when the store holds 16 alarms each of add, addExternal,
\* addExternal0 and addCustomizable returns a value no successful call of
\* the operation returns (a successful call, one on a store that is not
\* full, returns a value of SuccessValues; the failed one does not) and
\* leaves the count, every slot of the store and the file unchanged.
C8_FullStoreAddFails ==
    [][ op' \in AddOps =>
          IF _num = MAX_ALARMS
          THEN /\ ret' \notin SuccessValues
               /\ _num' = _num
               /\ _alarms' = _alarms
               /\ file' = file
          ELSE /\ ret' \in SuccessValues
               /\ _num' = _num + 1 ]_vars

\* addCustomizable has failed on a full store that holds system and
\* customizable alarms
C8_Witness ==
    /\ op = "addCustomizable"
    /\ ret = MAX_ALARMS
    /\ _num = MAX_ALARMS
    /\ systemAlarms > 0
    /\ systemAlarms < _num

\* ------------------------------------------------------------------------
\* C9, C10: the web ids of the registry
\* ------------------------------------------------------------------------
Customizables == {i \in Live : _alarms[i].isCustomizable}

\* the greatest web id among the live customizable alarms other than the one at index i
maxOtherId(i) ==
    LET ids == {_alarms[j].webId : j \in Customizables \ {i}} \cup {0}
    IN  CHOOSE m \in ids : \A n \in ids : n <= m

\* C9: under any sequence of add*, addCustomizable, modifyCustomizable,
\* deleteCustomizable, enableCustomizable, clear, check and load (of any
\* document, one that repeats an id included), no two live customizable
\* alarms have the same webId and every live customizable alarm's webId is
\* strictly positive.
C9_UniquePositiveWebIds ==
    \A i \in Customizables :
        /\ _alarms[i].webId > 0
        /\ \A j \in Customizables : j # i => _alarms[j].webId # _alarms[i].webId

maxLiveId ==
    LET ids == {_alarms[j].webId : j \in Customizables} \cup {0}
    IN  CHOOSE m \in ids : \A n \in ids : n <= m

unknownId(id) == \A i \in Customizables : _alarms[i].webId # id

\* the live system alarms, in store order
systemSeq(alarms, num) ==
    SelectSeq([k \in 1 .. num |-> alarms[k - 1]], LAMBDA a : ~a.isCustomizable)

\* the step changes neither the count, nor any slot, nor the file
NothingChanged == _num' = _num /\ _alarms' = _alarms /\ file' = file

\* C12: a modifyCustomizable call whose webId matches no live customizable
\* alarm (an id aimed at a system alarm, -1, included) or whose callback is
\* absent returns false and changes neither the store nor the file.
C12_ModifyFailsUnchanged ==
    [][ op' = "modifyCustomizable" =>
          \A id \in WebIds, cb \in {"chime", NULL}, w \in WriteOutcomes :
            ( /\ unknownId(id) \/ cb = NULL
              /\ modificarPersonalizable(id, NameB, <<>>, DOW_MONDAY, 8, 1, BELL, TRUE, cb, 30, w) )
            => (ret' = FALSE /\ NothingChanged) ]_vars

\* modifyCustomizable has failed on a store that holds a system alarm and a
\* customizable alarm, which still has the values addCustomizable gave it
C12_Witness ==
    /\ op = "modifyCustomizable" /\ ret = FALSE
    /\ _num = 2
    /\ ~_alarms[0].isCustomizable /\ _alarms[0].webId = -1
    /\ _alarms[1].isCustomizable /\ _alarms[1].name = NameA

\* C13: a deleteCustomizable or enableCustomizable call whose webId matches
\* no live customizable alarm returns false and changes neither the count,
\* nor any slot, nor the file; and whatever the webId, the call leaves the
\* system alarms of the store as they were.
C13_DeleteEnableFailUnchanged ==
    [][ /\ op' = "deleteCustomizable" =>
             \A id \in WebIds, w \in WriteOutcomes :
               eliminarPersonalizable(id, w) =>
                 /\ unknownId(id) => (ret' = FALSE /\ NothingChanged)
                 /\ systemSeq(_alarms', _num') = systemSeq(_alarms, _num)
        /\ op' = "enableCustomizable" =>
             \A id \in WebIds, estado \in BOOLEAN, w \in WriteOutcomes :
               habilitarPersonalizable(id, estado, w) =>
                 /\ unknownId(id) => (ret' = FALSE /\ NothingChanged)
                 /\ systemSeq(_alarms', _num') = systemSeq(_alarms, _num) ]_vars

\* deleteCustomizable has failed on a store that holds a system alarm and a
\* customizable alarm
C13_Witness ==
    /\ op = "deleteCustomizable" /\ ret = FALSE
    /\ _num = 2
    /\ ~_alarms[0].isCustomizable /\ _alarms[0].webId = -1
    /\ _alarms[1].isCustomizable

\* ------------------------------------------------------------------------
\* C15: the document after a registry operation
\* ------------------------------------------------------------------------
\* what C15 names of an entry of the document and of a stored alarm
entryTuple(e) ==
    <<e.id, e.name, e.description, e.hour, e.minute, e.action, e.parameter, e.enabled>>

alarmTuple(a) ==
    <<a.webId, a.name, a.description, a.hour, a.minute, a.typeString, a.parameter, a.enabled>>

\* the document f holds exactly one entry per customizable alarm of the
\* store and its total is the number of entries
documentMatches(f, alarms, num) ==
    LET cs == {i \in 0 .. (num - 1) : alarms[i].isCustomizable}
    IN  /\ f.kind = "document"
        /\ f.total = Len(f.alarms)
        /\ Len(f.alarms) = Cardinality(cs)
        /\ \A k \in DOMAIN f.alarms :
             Cardinality({j \in DOMAIN f.alarms : entryTuple(f.alarms[j]) = entryTuple(f.alarms[k])})
               = Cardinality({i \in cs : alarmTuple(alarms[i]) = entryTuple(f.alarms[k])})

\* the call of the step was a registry operation that reported success
registrySuccess ==
    \/ op' = "addCustomizable" /\ ret' # MAX_ALARMS
    \/ op' \in {"modifyCustomizable", "deleteCustomizable", "enableCustomizable"} /\ ret' = TRUE

\* C15 as stated: after every successful addCustomizable,
\* modifyCustomizable, deleteCustomizable or enableCustomizable the file
\* holds a document with exactly one entry per customizable alarm of the
\* store (its id, name, description, hour, minute, action, parameter and
\* enabled), none for a system alarm, and total equal to the number of
\* entries.
C15_DocumentMatchesStore ==
    [][ registrySuccess => documentMatches(file', _alarms', _num') ]_vars

\* ------------------------------------------------------------------------
\* C14: what a successful deleteCustomizable removes
\* ------------------------------------------------------------------------
\* C14: a deleteCustomizable call whose webId matches a live customizable
\* alarm returns true and removes one alarm with that webId: the count
\* decreases by one, the alarms stored before the removed one keep their
\* position and every field (dedup state and webId included), and the
\* alarms stored after it move down by one position with every field.
C14_DeleteRemovesExactlyOne ==
    [][ op' = "deleteCustomizable" =>
          \A id \in WebIds, w \in Writes :
            (~unknownId(id) /\ eliminarPersonalizable(id, w)) =>
              /\ ret' = TRUE
              /\ _num' = _num - 1
              /\ \E idx \in Customizables :
                   /\ _alarms[idx].webId = id
                   /\ \A i \in 0 .. (idx - 1) : _alarms'[i] = _alarms[i]
                   /\ \A i \in idx .. (_num - 2) : _alarms'[i] = _alarms[i + 1] ]_vars

\* a delete from a store of three: the system alarm that has fired is still
\* first with its dedup state, the customizable alarm stored last has moved
\* down to index 1, and the slot it left is empty
C14_Witness ==
    /\ op = "deleteCustomizable" /\ ret = TRUE
    /\ _num = 2
    /\ ~_alarms[0].isCustomizable /\ _alarms[0].lastYearDay = 10
    /\ _alarms[1].isCustomizable /\ _alarms[1].name = NameB
    /\ _alarms[2] = Alarm

\* ------------------------------------------------------------------------
\* C16, C17: save, then load
\* ------------------------------------------------------------------------
\* the tuple of C16 for a stored alarm, the day as the document encodes it
codecTuple(a) ==
    <<a.name, a.description, dayOfMask(a.dayMask), a.hour, a.minute, a.typeString,
      a.parameter, a.enabled>>

\* how many customizable alarms of the store have the tuple
tupleCount(alarms, num, tp) ==
    Cardinality({i \in 0 .. (num - 1) : alarms[i].isCustomizable /\ codecTuple(alarms[i]) = tp})

\* the step is a load of the document the store was saved to
roundTrip ==
    /\ op' = "load"
    /\ ret' = TRUE
    /\ file = documentOf(_alarms, _num)

\* C16 as stated: whatever customizable alarms the registry holds (any
\* dayMask, hour or minute, the wildcard included, any enabled flag), a load
\* of the document they were saved to yields customizable alarms with the
\* same multiset of {name, description, day, hour, minute, action,
\* parameter, enabled} tuples: none dropped, added or altered.
C16_RoundTripSameTuples ==
    [][ roundTrip =>
          \A i \in 0 .. (MAX_ALARMS - 1) :
            /\ (i < _num /\ _alarms[i].isCustomizable) =>
                 tupleCount(_alarms', _num', codecTuple(_alarms[i]))
                   = tupleCount(_alarms, _num, codecTuple(_alarms[i]))
            /\ (i < _num' /\ _alarms'[i].isCustomizable) =>
                 tupleCount(_alarms', _num', codecTuple(_alarms'[i]))
                   = tupleCount(_alarms, _num, codecTuple(_alarms'[i])) ]_vars

\* C17 as stated: a customizable alarm created or modified with a dayMask
\* of several weekdays is, after the document is saved and loaded again,
\* eligible on exactly the same weekdays: every customizable alarm the load
\* leaves in the store is eligible on the weekdays the alarm with its webId
\* was eligible on before the load.
C17_RoundTripSameWeekdays ==
    [][ roundTrip =>
          \A j \in 0 .. (_num' - 1) : \A i \in Customizables :
            (_alarms'[j].isCustomizable /\ _alarms'[j].webId = _alarms[i].webId) =>
              \A wday \in 0 .. 6 :
                eligible(_alarms'[j].dayMask, wday) <=> eligible(_alarms[i].dayMask, wday) ]_vars

\* ------------------------------------------------------------------------
\* C18, C19, C20: the load
\* ------------------------------------------------------------------------
\* the live alarms, in store order
storeSeq(alarms, num) == [k \in 1 .. num |-> alarms[k - 1]]

\* an entry whose name is not empty, whose hour and minute, as the load
\* reads them into a byte, are at most 23 and 59, and whose id is positive
validAsRead(e) ==
    /\ e.name # <<>>
    /\ (e.hour % 256) <= 23
    /\ (e.minute % 256) <= 59
    /\ e.id > 0

\* the alarm a carries the fields of the entry e
loadedFrom(a, e) ==
    /\ a.isCustomizable
    /\ a.webId = e.id
    /\ a.name = e.name
    /\ a.description = e.description
    /\ a.dayMask = (IF e.day = 0 THEN DOW_ALL ELSE 2 ^ (e.day - 1))
    /\ a.hour = e.hour % 256
    /\ a.minute = e.minute % 256
    /\ a.typeString = e.action
    /\ a.parameter = e.parameter
    /\ a.enabled = e.enabled

\* a load step that read and parsed a document
loadedDocument == op' = "load" /\ ret' = TRUE /\ file.kind = "document"

validEntry(e) ==
    /\ e.name # <<>>
    /\ e.hour <= 23
    /\ e.minute <= 59
    /\ e.id > 0

\* the live customizable alarms, in store order
customizableSeq(alarms, num) ==
    SelectSeq(storeSeq(alarms, num), LAMBDA a : a.isCustomizable)

\* C19: a load of a parsable document reports success, creates no alarm
\* for an entry with an empty name, an hour above 23, a minute above 59 or
\* an id of 0 or less, and creates one alarm for every valid entry before
\* or after such an entry
C19_InvalidEntriesSkipped ==
    [][ (op' = "load" /\ file.kind = "document") =>
          /\ cargarPersonalizablesDesdeJSON(_alarms, _num, _nextWebId, file, "ok", "ok").ret
          /\ ret' =>
                LET ve    == SelectSeq(file.alarms, validEntry)
                    after == customizableSeq(_alarms', _num')
                IN  /\ Len(after) = Len(ve)
                    /\ \A k \in 1 .. Len(ve) :
                          /\ after[k].webId = ve[k].id
                          /\ after[k].name = ve[k].name
                          /\ after[k].hour = ve[k].hour ]_vars

\* a load step that found no file, or a file that does not parse
loadedNoDocument == op' = "load" /\ file.kind \in {"missing", "corrupt"}

C21_NoTimeNoChange ==
    [][ op' = "checkNoTime" =>
          /\ fired' = <<>>
          /\ _alarms' = _alarms
          /\ _num' = _num ]_vars

\* C21 witness: a check() without a time has run on a store whose enabled
\* alarm has fired before
C21_Witness ==
    /\ op = "checkNoTime"
    /\ _num > 0
    /\ _alarms[0].enabled
    /\ _alarms[0].lastExecution # 0

\* ------------------------------------------------------------------------
\* C22: the three callback slots
\* ------------------------------------------------------------------------
\* how many of action, externalAction and externalAction0 hold a callback
populatedSlots(a) ==
    (IF a.action # NULL THEN 1 ELSE 0)
    + (IF a.externalAction # NULL THEN 1 ELSE 0)
    + (IF a.externalAction0 # NULL THEN 1 ELSE 0)

\* C22: every alarm of the store has exactly one of its three callback
\* slots (member method, external function with parameter, external
\* function without parameter) populated, whether it was created by an add
\* operation given a callback or by the load
C22_ExactlyOneActionSlot ==
    \A i \in Live : populatedSlots(_alarms[i]) = 1

\* ------------------------------------------------------------------------
\* C23: a day mask of 0
\* ------------------------------------------------------------------------
\* the step is a creation call whose day mask argument is 0
createdWithZeroMask ==
    /\ op' \in {"add", "addExternal", "addExternal0", "addCustomizable"}
    /\ _num' = _num + 1
    /\ \/ add(0, 8, 0, 0, "onTimer", 10, TRUE)
       \/ addExternal(0, 8, 0, 0, "bell", 10, TRUE)
       \/ addExternal0(0, 8, 0, 0, "chime", TRUE)
       \/ addPersonalizable(NameA, <<>>, 0, 8, 0, BELL, 10, "bell", TRUE, "ok")

\* C23: an alarm created by add, addExternal, addExternal0 or
\* addCustomizable with a day mask of 0 is stored with the mask of all
\* days, so every weekday is eligible for it
C23_ZeroMaskStoredAsAllDays ==
    [][ createdWithZeroMask =>
          /\ _alarms'[_num].dayMask = DOW_ALL
          /\ \A wday \in 0 .. 6 : eligible(_alarms'[_num].dayMask, wday) ]_vars

\* ------------------------------------------------------------------------
\* C24: the dedup state of a new alarm
\* ------------------------------------------------------------------------
\* the dedup state of an alarm that was never dispatched
neverFired(a) ==
    /\ a.lastYearDay = -1
    /\ a.lastMinute = 255
    /\ a.lastHour = 255
    /\ a.lastExecution = 0

\* C24: an alarm placed in the store by add, addExternal, addExternal0,
\* addCustomizable or the load holds the never-fired dedup state
\* (lastYearDay -1, lastHour and lastMinute 255, lastExecution 0), whatever
\* firings, clear, deletes or loads came before
C24_NewAlarmNeverFired ==
    [][ /\ (op' \in {"add", "addExternal", "addExternal0", "addCustomizable"} /\ _num' = _num + 1)
            => neverFired(_alarms'[_num])
        /\ (op' = "load" /\ ret' = TRUE /\ file.kind = "document")
            => \A i \in 0 .. (_num' - 1) :
                  _alarms'[i].isCustomizable => neverFired(_alarms'[i]) ]_vars

\* ------------------------------------------------------------------------
\* C25: a successful modifyCustomizable
\* ------------------------------------------------------------------------
\* the index of the first live customizable alarm with web id id
targetOf(id) ==
    CHOOSE i \in Customizables :
        /\ _alarms[i].webId = id
        /\ \A j \in Customizables : _alarms[j].webId = id => i <= j

\* C25: a successful modifyCustomizable(webId, ...) gives the target alarm
\* the name, description, day mask, hour, minute, type tag, enabled flag,
\* callback and parameter of the call, resets its dedup state to the
\* never-fired values, and leaves its webId, its customizable flag, its
\* position, the count and every other alarm as they were
C25_ModifyReplacesAndResets ==
    [][ op' = "modifyCustomizable" =>
          \A id \in WebIds, cb \in {"chime", NULL} :
            ( /\ modificarPersonalizable(id, NameB, <<>>, DOW_MONDAY, 8, 1, BELL, TRUE, cb, 30, "ok")
              /\ ret' = TRUE )
            => /\ ~unknownId(id)
               /\ LET idx == targetOf(id)
                      old == _alarms[idx]
                      new == _alarms'[idx]
                  IN  /\ new.name = NameB
                      /\ new.description = <<>>
                      /\ new.dayMask = DOW_MONDAY
                      /\ new.hour = 8
                      /\ new.minute = 1
                      /\ new.typeString = BELL
                      /\ new.enabled = TRUE
                      /\ new.externalAction = cb
                      /\ new.action = NULL
                      /\ new.externalAction0 = NULL
                      /\ new.parameter = 30
                      /\ neverFired(new)
                      /\ new.webId = old.webId
                      /\ new.isCustomizable = old.isCustomizable
                      /\ new.intervalMin = old.intervalMin
                      /\ _num' = _num
                      /\ \A j \in Slots \ {idx} : _alarms'[j] = _alarms[j] ]_vars

\* C25 witness: modifyCustomizable has succeeded on a store whose system
\* alarm has fired; the customizable alarm has the values of the call and
\* the never-fired dedup state
C25_Witness ==
    /\ op = "modifyCustomizable" /\ ret = TRUE
    /\ _num = 2
    /\ ~_alarms[0].isCustomizable /\ _alarms[0].lastExecution # 0
    /\ _alarms[1].isCustomizable /\ _alarms[1].name = NameB /\ neverFired(_alarms[1])

\* ------------------------------------------------------------------------
\* C26: enableCustomizable
\* ------------------------------------------------------------------------
\* the reading r is on a day, hour and minute of the alarm's schedule
matchesSchedule(a, r) ==
    /\ eligible(a.dayMask, r.tm_wday)
    /\ a.hour = ALARM_WILDCARD \/ a.hour = r.tm_hour
    /\ a.minute = ALARM_WILDCARD \/ a.minute = r.tm_min

\* C26: a successful enableCustomizable(webId, true) sets the target
\* enabled and resets its dedup state, so that the next check() whose
\* reading matches its schedule dispatches it; enableCustomizable(webId,
\* false) sets it disabled and leaves lastYearDay, lastHour, lastMinute and
\* lastExecution as they were; in both cases nothing else of the target
\* and no other alarm changes
C26_EnableResetsDisableKeeps ==
    [][ /\ op' = "enableCustomizable" =>
            \A id \in WebIds, estado \in BOOLEAN :
              (habilitarPersonalizable(id, estado, "ok") /\ ret' = TRUE)
              => /\ ~unknownId(id)
                 /\ LET idx == targetOf(id)
                        old == _alarms[idx]
                    IN  /\ _alarms'[idx] =
                             IF estado
                             THEN [old EXCEPT !.enabled = TRUE, !.lastYearDay = -1,
                                              !.lastMinute = 255, !.lastHour = 255,
                                              !.lastExecution = 0]
                             ELSE [old EXCEPT !.enabled = FALSE]
                        /\ _num' = _num
                        /\ \A j \in Slots \ {idx} : _alarms'[j] = _alarms[j]
        /\ op' = "check" =>
            \A i \in Live :
              ( /\ _alarms[i].enabled
                /\ _alarms[i].intervalMin = 0
                /\ neverFired(_alarms[i])
                /\ matchesSchedule(_alarms[i], t') )
              => i \in firedIdx' ]_vars

\* C26 witness: enableCustomizable has succeeded and the customizable alarm
\* stored before a system alarm that has fired at 08:00 is enabled, on
\* every day at 08:00, with the never-fired dedup state
C26_Witness ==
    /\ op = "enableCustomizable" /\ ret = TRUE
    /\ _num = 2
    /\ _alarms[0].isCustomizable /\ _alarms[0].enabled /\ _alarms[0].name = NameA
    /\ _alarms[0].dayMask = DOW_ALL /\ _alarms[0].hour = 8 /\ _alarms[0].minute = 0
    /\ neverFired(_alarms[0])
    /\ ~_alarms[1].isCustomizable /\ _alarms[1].lastExecution # 0

\* ------------------------------------------------------------------------
\* C27: no dispatch outside the alarm's hour and minute
\* ------------------------------------------------------------------------
\* C27: a check() dispatches an alarm without interval only if the hour of
\* its reading is the alarm's hour, or that is the wildcard, and the minute
\* of its reading is the alarm's minute, or that is the wildcard; an
\* occurrence no check() saw is not made up for at another time
C27_FixedOnlyAtItsTime ==
    [][ op' = "check" =>
          \A i \in firedIdx' :
            _alarms[i].intervalMin = 0
            => /\ _alarms[i].hour = ALARM_WILDCARD \/ _alarms[i].hour = t'.tm_hour
               /\ _alarms[i].minute = ALARM_WILDCARD \/ _alarms[i].minute = t'.tm_min ]_vars

\* C27 witness: a check() at 08:00 has dispatched the alarm of 08:00, which
\* has no interval
C27_Witness ==
    /\ op = "check" /\ 0 \in firedIdx
    /\ _num > 0
    /\ _alarms[0].intervalMin = 0 /\ _alarms[0].hour = 8 /\ _alarms[0].minute = 0
    /\ t.tm_hour = 8 /\ t.tm_min = 0

\* ------------------------------------------------------------------------
\* C28: the interval alarm of every 15 minutes
\* ------------------------------------------------------------------------
\* the minute of a history entry or reading, counted from day 0
minuteIndex(e) == (e.tm_yday * 24 + e.tm_hour) * 60 + e.tm_min

\* C28: with check() called in every second of a clock that moves forward,
\* the alarm with every day eligible, wildcard hour, anchor minute 0 and
\* interval 15 is dispatched, from its first firing on, exactly once in
\* each of the minutes :00, :15, :30 and :45 of every hour and in no other
\* minute
C28_EveryQuarterOnce ==
    LET l == LogOf(0)
    IN  /\ \A k \in DOMAIN l : l[k].tm_min \in {0, 15, 30, 45}
        /\ \A k \in 1 .. (Len(l) - 1) : minuteIndex(l[k + 1]) = minuteIndex(l[k]) + 15
        /\ (l # <<>> /\ t # NoReading) => minuteIndex(t) <= minuteIndex(l[Len(l)]) + 15

\* C28 witness: the loop has run past midnight and the alarm was
\* dispatched five times
C28_Witness ==
    /\ op = "check"
    /\ t.tm_yday = FirstDay + 1
    /\ Len(LogOf(0)) >= 5
    /\ _alarms[0].intervalMin = 15 /\ _alarms[0].hour = ALARM_WILDCARD /\ _alarms[0].minute = 0

\* ------------------------------------------------------------------------
\* C29: what check() writes
\* ------------------------------------------------------------------------
\* C29: after a check() every alarm it dispatched, with or without
\* interval, has lastYearDay, lastHour, lastMinute and lastExecution equal
\* to the day of year, hour, minute and epoch of the reading and is
\* otherwise as before; every other alarm is as before, dedup fields
\* included; and the count is as before
C29_CheckWritesOnlyDedupOfFired ==
    [][ op' = "check" =>
          /\ _num' = _num
          /\ firedIdx' \subseteq Live
          /\ \A i \in Slots :
               _alarms'[i] =
                 IF i \in firedIdx'
                 THEN [_alarms[i] EXCEPT !.lastYearDay   = t'.tm_yday,
                                         !.lastHour      = t'.tm_hour,
                                         !.lastMinute    = t'.tm_min,
                                         !.lastExecution = t'.now]
                 ELSE _alarms[i] ]_vars

\* C29 witness: a check() at 09:01 has dispatched an interval alarm, whose
\* dedup fields hold that reading
C29_Witness ==
    /\ op = "check" /\ 0 \in firedIdx
    /\ _num > 0
    /\ _alarms[0].intervalMin > 0
    /\ t.tm_hour = 9 /\ t.tm_min = 1
    /\ _alarms[0].lastHour = 9 /\ _alarms[0].lastMinute = 1
    /\ _alarms[0].lastYearDay = t.tm_yday /\ _alarms[0].lastExecution = t.now

\* ------------------------------------------------------------------------
\* C30: two checks in one minute
\* ------------------------------------------------------------------------
\* C30: of two check() calls that follow each other with readings of the
\* same day of year, hour and minute, the second does not dispatch an
\* alarm without interval that the first has dispatched
C30_OncePerMinute ==
    [][ ( /\ op = "check" /\ op' = "check"
          /\ t'.tm_yday = t.tm_yday /\ t'.tm_hour = t.tm_hour /\ t'.tm_min = t.tm_min )
        => \A i \in firedIdx : _alarms[i].intervalMin = 0 => i \notin firedIdx' ]_vars

\* C30 witness: a check() has dispatched nothing although the alarm without
\* interval is enabled and its schedule matches the reading: its dedup
\* fields hold this day, hour and minute from a check() at another second
C30_Witness ==
    /\ op = "check" /\ fired = <<>>
    /\ _num > 0
    /\ _alarms[0].enabled /\ _alarms[0].intervalMin = 0
    /\ matchesSchedule(_alarms[0], t)
    /\ _alarms[0].lastYearDay = t.tm_yday
    /\ _alarms[0].lastHour = t.tm_hour
    /\ _alarms[0].lastMinute = t.tm_min
    /\ _alarms[0].lastExecution # t.now

\* ------------------------------------------------------------------------
\* C31: one check() over several alarms
\* ------------------------------------------------------------------------
\* the alarm a is due for the reading r: enabled, on an eligible day, and
\* either an interval alarm at its anchor or with its interval elapsed, or
\* an alarm without interval at its time that has not fired in this minute
dueAt(a, r) ==
    /\ a.enabled
    /\ eligible(a.dayMask, r.tm_wday)
    /\ IF a.intervalMin > 0
       THEN IF a.lastExecution = 0
            THEN /\ a.hour = ALARM_WILDCARD \/ a.hour = r.tm_hour
                 /\ a.minute = ALARM_WILDCARD \/ a.minute = r.tm_min
            ELSE r.now - a.lastExecution >= a.intervalMin * 60
       ELSE /\ a.hour = ALARM_WILDCARD \/ a.hour = r.tm_hour
            /\ a.minute = ALARM_WILDCARD \/ a.minute = r.tm_min
            /\ ~( /\ a.lastYearDay = r.tm_yday
                  /\ a.lastMinute = r.tm_min
                  /\ a.hour = ALARM_WILDCARD => a.lastHour = r.tm_hour )

\* C31: one check() dispatches every alarm that is due for its reading, in
\* that call, each once, in ascending store order, one after the other
C31_AllDueInStoreOrder ==
    [][ op' = "check" =>
          /\ firedIdx' = {i \in Live : dueAt(_alarms[i], t')}
          /\ \A k \in 1 .. (Len(fired') - 1) : fired'[k].idx < fired'[k + 1].idx ]_vars

\* C31 witness: one check() has dispatched the alarm at index 0 and then
\* the alarm at index 1
C31_Witness ==
    /\ op = "check"
    /\ Len(fired) = 2
    /\ fired[1].idx = 0 /\ fired[2].idx = 1

\* ------------------------------------------------------------------------
\* C32: enable(idx), disable(idx), get(idx)
\* ------------------------------------------------------------------------
\* C32: enable(idx) and disable(idx) with idx below the count change the
\* enabled flag of the alarm at idx and nothing else, its dedup fields
\* included, so a check() after enable() in the minute the alarm has fired
\* in does not dispatch it again; with idx at or above the count they
\* change nothing, and get(idx) gives no alarm
C32_EnableDisableOnlyFlag ==
    [][ /\ op' \in {"enable", "disable"} =>
            \A idx \in 0 .. MaxEngine :
              (IF op' = "enable" THEN enable(idx) ELSE disable(idx))
              => /\ _num' = _num
                 /\ IF idx < _num
                    THEN /\ _alarms' = [_alarms EXCEPT ![idx].enabled = (op' = "enable")]
                         /\ get(idx) = _alarms[idx]
                    ELSE /\ _alarms' = _alarms
                         /\ get(idx) = NULL
        /\ (op = "enable" /\ op' = "check") =>
            \A i \in Live :
              ( /\ _alarms[i].intervalMin = 0
                /\ _alarms[i].lastYearDay = t'.tm_yday
                /\ _alarms[i].lastHour = t'.tm_hour
                /\ _alarms[i].lastMinute = t'.tm_min )
              => i \notin firedIdx' ]_vars

\* C32 witness: after enable(0) the alarm that has fired is enabled and
\* still holds the day, hour and minute of its firing
C32_Witness ==
    /\ op = "enable"
    /\ _num = 1
    /\ _alarms[0].enabled
    /\ _alarms[0].intervalMin = 0
    /\ _alarms[0].lastYearDay = 10 /\ _alarms[0].lastHour = 8 /\ _alarms[0].lastMinute = 0

\* ------------------------------------------------------------------------
\* C33: the load of a missing document
\* ------------------------------------------------------------------------
\* a load step that found no file
loadedMissing == op' = "load" /\ file.kind = "missing"

\* C33 as stated: a load that finds the document missing does not write
\* it; the document comes into existence with the next successful
\* addCustomizable, modifyCustomizable, deleteCustomizable or
\* enableCustomizable
C33_LoadDoesNotWrite ==
    [][ /\ loadedMissing => file' = file
        /\ (file.kind = "missing" /\ file'.kind = "document")
            => op' \in {"addCustomizable", "modifyCustomizable", "deleteCustomizable",
                        "enableCustomizable"} ]_vars

\* C33 amended: a load that finds the document missing writes it: the load
\* returns true exactly when a document with one entry per customizable
\* alarm of the store has been written, and the store is as before; a
\* missing document comes into existence by such a load or by a mutating
\* call of the registry, whichever writes first
C33_LoadWritesMissingDocument ==
    [][ /\ loadedMissing =>
            /\ _alarms' = _alarms /\ _num' = _num
            /\ ret' = (file'.kind = "document")
            /\ ret' => documentMatches(file', _alarms, _num)
        /\ (file.kind = "missing" /\ file'.kind = "document")
            => op' \in {"load", "addCustomizable", "modifyCustomizable",
                        "deleteCustomizable", "enableCustomizable"} ]_vars

\* C33 witness: a load has found no file and has written a document with
\* the customizable alarm of the store, which still has the callback that
\* addCustomizable gave it
C33_Witness ==
    /\ op = "load" /\ ret = TRUE
    /\ file.kind = "document" /\ Len(file.alarms) = 1
    /\ _num = 1
    /\ _alarms[0].isCustomizable /\ _alarms[0].externalAction = "chime"

\* ------------------------------------------------------------------------
\* C34: the day mask of a loaded alarm
\* ------------------------------------------------------------------------
\* C34: every customizable alarm the load has placed in the store has the
\* mask of all days or the mask of exactly one of the weekday bits 0 .. 6,
\* whatever day value its entry carries: never an empty mask, never a bit
\* outside the seven
C34_LoadedMaskIsWeekday ==
    \A i \in Customizables :
        \/ _alarms[i].dayMask = DOW_ALL
        \/ \E k \in 0 .. 6 : _alarms[i].dayMask = 2 ^ k

C36_NoLeftoverCallback ==
    op = "check" =>
        \A k \in DOMAIN fired :
            _alarms[fired[k].idx].isCustomizable =>
                fired[k].kind \notin {"action", "externalAction0"}

\* ------------------------------------------------------------------------
\* C37: a callback that deletes a customizable alarm during check()
\* ------------------------------------------------------------------------
\* every deleting callback in the store deletes its own alarm or one at a
\* lower index
deletesOwnOrEarlier ==
    \A i \in Live :
        _alarms[i].externalAction = "deleteById" =>
            \A j \in Live :
                (_alarms[j].isCustomizable /\ _alarms[j].webId = _alarms[i].parameter) => j <= i

\* the dedup fields of a and b are the same
sameDedup(a, b) ==
    /\ a.lastYearDay = b.lastYearDay
    /\ a.lastMinute = b.lastMinute
    /\ a.lastHour = b.lastHour
    /\ a.lastExecution = b.lastExecution

\* C37: when the callbacks dispatched by a check() delete their own alarm
\* or an earlier one, every alarm that was due is dispatched once in that
\* check(), and an alarm still in the store has its dedup fields changed
\* only if it was dispatched
C37_ReentrantDeleteKeepsOthers ==
    [][ (op' = "check" /\ deletesOwnOrEarlier) =>
          LET due      == {i \in Live : dueAt(_alarms[i], t')}
              firedIds == {fired'[k].webId : k \in DOMAIN fired'}
          IN  /\ Len(fired') = Cardinality(due)
              /\ \A i \in due : _alarms[i].webId \in firedIds
              /\ \A j \in 0 .. (_num' - 1) : \A i \in Live :
                    ( /\ _alarms'[j].webId = _alarms[i].webId
                      /\ ~sameDedup(_alarms'[j], _alarms[i]) )
                    => _alarms[i].webId \in firedIds ]_vars

\* ------------------------------------------------------------------------
\* C38: a registry call whose file write fails
\* ------------------------------------------------------------------------
\* the outcomes of a write that leave the document not rewritten
FailedWrites == WriteOutcomes \ {"ok"}

\* the step is the registry call named by op' made with the write outcome w
registryCallWith(w) ==
    \/ addPersonalizable(NameA, <<>>, DOW_ALL, 8, 0, BELL, 10, "bell", TRUE, w)
    \/ \E id \in WebIds, cb \in {"chime", NULL} :
         modificarPersonalizable(id, NameB, <<>>, DOW_MONDAY, 8, 1, BELL, TRUE, cb, 30, w)
    \/ \E id \in WebIds : eliminarPersonalizable(id, w)
    \/ \E id \in WebIds, estado \in BOOLEAN : habilitarPersonalizable(id, estado, w)

\* C38: an addCustomizable, modifyCustomizable, deleteCustomizable or
\* enableCustomizable whose file write fails reports failure and leaves
\* the customizable alarms of the store as they were
C38_FailedWriteReportsFailure ==
    [][ op' \in {"addCustomizable", "modifyCustomizable", "deleteCustomizable",
                 "enableCustomizable"} =>
          \A w \in FailedWrites :
             (registryCallWith(w) /\ file' # documentOf(_alarms', _num')) =>
                /\ ~registrySuccess
                /\ customizableSeq(_alarms', _num') = customizableSeq(_alarms, _num) ]_vars

\* ------------------------------------------------------------------------
\* C39: the document and the store after any operation
\* ------------------------------------------------------------------------
\* C39: once the file holds a document, it holds after every operation
\* exactly one entry per customizable alarm of the store, with that alarm's
\* id, name, description, hour, minute, action, parameter and enabled flag
C39_DocumentFollowsStore ==
    file.kind = "document" => documentMatches(file, _alarms, _num)

\* ------------------------------------------------------------------------
\* C40: the next-id counter after a load
\* ------------------------------------------------------------------------
\* C40: after a load of a document that reports success, the next-id
\* counter is greater than the webId of every customizable alarm in the
\* store, all of which that load placed
C40_CounterPastLoadedIds ==
    [][ (op' = "load" /\ ret' = TRUE /\ file.kind = "document") =>
          \A i \in 0 .. (_num' - 1) :
              _alarms'[i].isCustomizable => _nextWebId' > _alarms'[i].webId ]_vars

================================================================================
